---- MODULE Spec2Model ----
(***************************************************************************)
(* Guild-scoped currency ledger of FeijoaBot: the users table (balances),  *)
(* the currency ledger and the positions table, and the operations of      *)
(* UserDB that mutate them (mint_currency, burn_currency,                  *)
(* transfer_currency, set_currency_balance_and_log, apply_wealth_tax).     *)
(*                                                                         *)
(* Every operation runs on its own connection.  A statement of the code    *)
(* is one step; a coroutine may be suspended at every await, so steps of   *)
(* different callers interleave.  The store admits one write transaction   *)
(* at a time: the first write statement of an operation takes the write    *)
(* lock, commit/rollback/leaving the connection releases it.               *)
(***************************************************************************)
EXTENDS Integers, Sequences, FiniteSets, TLC

\* ------------------------------------------------------------------ bounds
MaxEvents == 3          \* ledger length reached by mint, burn and donate
MaxEventsAll == 2       \* ledger length reached when all operations are called
NumBurners == 3         \* N of the concurrent-burn scenario
BurnAmount == 5         \* A of the concurrent-burn scenario
MaxValue == 64          \* largest value whose tax is tabulated
MaxReminders == 2       \* reminder messages that users post
MaxTasks == 3           \* handlers and timer tasks on the event loop at one time
MaxActive == 2          \* users whose activity is cached

Admin == 9                              \* an invoking admin (initiator)
Procs == {1, 2}

\* rows of the positions table (owned by the trading module), by position_id
Pos(u, g, c, n) == [user |-> u, guild |-> g, collateral |-> c, notional |-> n]
InitPositions == {<<>>, <<Pos(1, 1, 12, 24)>>}
\* the tables a tax pass is followed over: two positions of one user (one
\* short), a position whose notional would become 0, one at the threshold,
\* one of another guild, and one whose rescaled notional is a whole number
TaxPositions == InitPositions \cup
    {<<Pos(1, 1, 12, 24), Pos(1, 1, 24, -48)>>,
     <<Pos(2, 1, 12, 1), Pos(1, 1, 10, 20)>>,
     <<Pos(1, 1, 12, 24), Pos(2, 2, 24, 48)>>,
     <<Pos(2, 1, 17, 153)>>}

\* The inputs of the callers: users, guilds, amounts (mint, burn, donate),
\* new_balance arguments (set), initiators of a mint (0: none given),
\* exponents <<num, den, above>> (0.9, whose double lies above 9/10, and 1.0),
\* the operations called and the ledger length up to which events are appended.
\* Wide: one caller at a time; Narrow: interleaved callers of all operations;
\* Core: interleaved callers of mint, burn and donate; Burners: the N burns;
\* Race: interleaved callers of all operations, one event more than Narrow;
\* Taxes: one tax pass over accounts that hold given balances (exponents 0.9,
\* 0.5, 0.975, 1.0 and 2.0; the double 0.975 lies below 39/40, which no power
\* of the values used can tell from 39/40).
AllOps == {"mint", "burn", "set", "tax"}
Wide == [users |-> {1, 2}, guilds |-> {1}, amounts |-> {5, 12}, balances |-> {0, 5, 12},
         inits |-> {0, Admin}, exps |-> {<<9, 10, 1>>, <<1, 1, 0>>}, ops |-> AllOps,
         cap |-> MaxEventsAll]
Narrow == [users |-> {1, 2}, guilds |-> {1}, amounts |-> {12}, balances |-> {0},
           inits |-> {Admin}, exps |-> {<<9, 10, 1>>}, ops |-> AllOps,
           cap |-> MaxEventsAll]
Core == [users |-> {1, 2}, guilds |-> {1}, amounts |-> {5, 12}, balances |-> {},
         inits |-> {Admin}, exps |-> {}, ops |-> {"mint", "burn"}, cap |-> MaxEvents]
Race == [users |-> {1, 2}, guilds |-> {1}, amounts |-> {12}, balances |-> {0},
         inits |-> {Admin}, exps |-> {<<9, 10, 1>>}, ops |-> AllOps,
         cap |-> MaxEventsAll + 1]
\* (balances: what the accounts hold when the one tax pass starts, 0: no
\*  account; the cap leaves room for the pass's events)
Taxes == [users |-> {1, 2}, guilds |-> {1}, amounts |-> {},
          balances |-> {0, 5, 10, 11, 13, 24, 1000}, inits |-> {Admin},
          exps |-> {<<9, 10, 1>>, <<1, 2, 0>>, <<39, 40, 0>>, <<1, 1, 0>>, <<2, 1, 0>>},
          ops |-> {"tax"},
          cap |-> 2 + 4]
Burners == [users |-> {1}, guilds |-> {1}, amounts |-> {BurnAmount}, balances |-> {},
            inits |-> {Admin}, exps |-> {}, ops |-> {"burn"}, cap |-> NumBurners + 1]

\* Board: the tables and the arguments get_leaderboard is followed over (rows
\* of up to three accounts in rowid order, two stat columns, limits 0..3)
Board == [users |-> {1, 2, 3}, guilds |-> {1, 2}, balances |-> {0, 5, 12}, xps |-> {0, 5},
          stats |-> {"currency", "xp"}, limits |-> 0..3]

\* Games: one caller at a time, all operations and blackjack (bets 1 and 5;
\* a balance set to 12 is above the tax threshold)
Games == [users |-> {1, 2}, guilds |-> {1}, amounts |-> {1, 5}, balances |-> {0, 12},
          inits |-> {0, Admin}, exps |-> {<<9, 10, 1>>}, ops |-> AllOps,
          cap |-> MaxEvents]

\* Iso: one caller at a time, all operations, in two guilds that both hold
\* accounts of the same users
Iso == [users |-> {1, 2}, guilds |-> {1, 2}, amounts |-> {12}, balances |-> {12},
        inits |-> {Admin}, exps |-> {<<9, 10, 1>>}, ops |-> AllOps,
        cap |-> MaxEventsAll + 1]

\* Rounds: the clicks on one blackjack view of one player who holds a given
\* balance (0: no account) when the game is started
Rounds == [users |-> {1}, guilds |-> {1}, amounts |-> {1, 2, 5}, balances |-> {0, 5, 12},
           cap |-> MaxEvents + 1]

\* Days: the callers of the daily claim, the reminder preference and the reset
Days == [users |-> {1, 2}, guilds |-> {1, 2}]

\* ------------------------------------------------------- program constants
SYSTEM_USER_ID == 0
COLLATERAL_POOL_ID == -1
TaxThreshold == 10

VARIABLES users, ledger, positions,     \* committed store
          txOwner, txUsers, txLedger, txPositions,  \* the open write transaction
          pc,                           \* per caller: position in the code, locals
          lastRet,                      \* the most recent return of any caller
          results,                      \* results of the callers that are followed
          view, blackjack_stats,        \* a blackjack game and the player's statistics
          daily, txDaily,               \* has_claimed_daily and
                                        \* daily_reminder_preference of the users
                                        \* table, committed and in the transaction
          reminders,                    \* message ids of the rows of the reminders table
          messages, due, sent,          \* the reminder messages; the reminders whose
                                        \* time has come; those send_reminder was called for
          timer,                        \* _timer_task and _next_reminder_msg_id
          tasks,                        \* the event handlers and timer tasks on the loop
          activity_cache,               \* Activity.activity_cache
          flush,                        \* the flush in flight, its activity_to_flush, and
                                        \* whether the last update_active_users raised
          active_users, added           \* pairs a successful update_active_users got;
                                        \* pairs ever added to the cache

vars == <<users, ledger, positions, txOwner, txUsers, txLedger, txPositions, pc, lastRet,
          results, view, blackjack_stats, daily, txDaily, reminders, messages, due, sent,
          timer, tasks, activity_cache, flush, active_users, added>>

\* the state of the Reminders cog and of the Activity cog
cogs == <<reminders, messages, due, sent, timer, tasks, activity_cache, flush, active_users,
          added>>

\* the state that no ledger operation of UserDB touches
others == <<view, blackjack_stats, daily, txDaily, cogs>>

\* the store and the callers, which the steps outside the store leave alone
store == <<users, ledger, positions, txOwner, txUsers, txLedger, txPositions>>

\* no BlackjackView yet (hands: the bet and the result of each hand; cur: the
\* hand in play; fresh: no action taken on it yet; pair: it can be split;
\* buttons: the items last shown; rounds: the rounds dealt so far)
NoView == [state |-> "NONE", hands |-> <<>>, cur |-> 0, fresh |-> FALSE, pair |-> FALSE,
           buttons |-> {}, rounds |-> 0, bet |-> 0]

\* a slot of the event loop that holds no task. A task has a kind ("handler":
\* on_message or on_message_delete; "timer": wait_and_dispatch), the await it is
\* suspended at (stage), the reminder a timer was created for (target), whether
\* its delay was positive (sleep), a cancellation not yet delivered (cancel) and
\* the local `reminder` of the schedule_next it runs (0: None)
NoTask == [kind |-> "free", stage |-> "", target |-> 0, sleep |-> FALSE, cancel |-> FALSE,
           reminder |-> 0]

\* _timer_task of a finished task: truthy, and done() is true
DoneTask == -1

\* the state outside the store when the bot has started
OthersInit ==
    /\ view = NoView
    /\ blackjack_stats = [net_credits |-> 0]
    /\ daily = <<>>
    /\ txDaily = <<>>
    /\ reminders = {}
    /\ messages = [i \in 1 .. MaxReminders |-> "none"]
    /\ due = {}
    /\ sent = {}
    /\ timer = [task |-> 0, next |-> 0]
    /\ tasks = [t \in 1 .. MaxTasks |-> NoTask]
    /\ activity_cache = {}
    /\ flush = [running |-> FALSE, activity_to_flush |-> {}, raised |-> FALSE]
    /\ active_users = {}
    /\ added = {}

\* --------------------------------------------------------------- helpers
\* (mutant) the statements leave guild_id out of the key
KeyNoGuild(u, g) == <<u, 1>>

Key(u, g) == <<u, g>>

\* get_stat / "SELECT currency ...": 0 when the row is absent
Currency(tbl, u, g) == IF Key(u, g) \in DOMAIN tbl THEN tbl[Key(u, g)] ELSE 0

RECURSIVE SumAmounts(_)
SumAmounts(evs) == IF evs = <<>> THEN 0 ELSE Head(evs).amount + SumAmounts(Tail(evs))

\* int(x) of the rational a / b, b > 0: truncation toward zero
TruncDiv(a, b) == IF a >= 0 THEN a \div b ELSE -((-a) \div b)

Abs(x) == IF x < 0 THEN -x ELSE x

RECURSIVE Pow2(_)
Pow2(n) == IF n = 0 THEN 1 ELSE 2 * Pow2(n - 1)

\* the e with 2^e <= q < 2^(e+1), q >= 1
RECURSIVE Log2(_)
Log2(q) == IF q < 2 THEN 0 ELSE 1 + Log2(q \div 2)

\* the s >= from with 2^(-s) <= a / b < 2^(1-s), 0 < a < b
RECURSIVE RatioShift(_, _, _)
RatioShift(a, b, from) == IF a * Pow2(from) >= b THEN from ELSE RatioShift(a, b, from + 1)

\* <<(x * 2^k) mod b, floor(x * 2^k / b) mod 2>>, eight binary places at a
\* time (x < b, and b * 2^8 stays a small integer)
RECURSIVE Doubled(_, _, _)
Doubled(x, b, k) ==
    IF k = 0 THEN <<x, 0>>
    ELSE LET j == IF k >= 8 THEN 8 ELSE k
             y == Doubled(x, b, k - j)[1] * Pow2(j)
         IN <<y % b, (y \div b) % 2>>

\* int(n * (a / b)) in double arithmetic, 0 < a <= b: a / b is rounded to a
\* double of 53 bits (k = 52 + s binary places), so is its product with n.
\* Where n * a / b is not an integer the roundings are too small to change
\* the integer part.  Where it is an integer q, the product is q unless the
\* quotient was rounded down by rem / (b * 2^k), rem > 0, and n times that
\* is more than half the distance from q to the double below it: then the
\* product lies below q and int() gives q - 1.
ScaledNotional(n, a, b) ==
    LET an == Abs(n)
        q == (an * a) \div b
        s == RatioShift(a, b, 1)
        d == Doubled(a % b, b, 52 + s)
        roundedDown == 2 * d[1] < b \/ (2 * d[1] = b /\ d[2] = 0)
        rem == IF roundedDown THEN d[1] ELSE d[1] - b
        e == Log2(q)
        below == /\ (an * a) % b = 0
                 /\ q > 0
                 /\ rem > 0
                 /\ (IF Pow2(e) = q THEN 4 ELSE 2) * an * rem > b * Pow2(s + e)
        m == IF below THEN q - 1 ELSE q
    IN IF n >= 0 THEN m ELSE -m

\* all enumerations (orders) of a finite set
RECURSIVE Orders(_)
Orders(S) == IF S = {} THEN {<<>>}
             ELSE UNION {{<<x>> \o r : r \in Orders(S \ {x})} : x \in S}

\* ------------------------------------------------- arbitrary-size naturals
\* (little-endian sequences of base-1000 digits; Python ints/floats of the
\*  magnitudes used here are exact where the model is exact)
RECURSIVE BigMulC(_, _, _)
BigMulC(x, k, carry) ==
    IF x = <<>>
    THEN IF carry = 0 THEN <<>> ELSE <<carry % 1000>> \o BigMulC(<<>>, k, carry \div 1000)
    ELSE LET t == Head(x) * k + carry
         IN <<t % 1000>> \o BigMulC(Tail(x), k, t \div 1000)

\* b^e, two factors at a time where b * b is a small integer
RECURSIVE BigPow(_, _)
BigPow(b, e) ==
    IF e = 0 THEN <<1>>
    ELSE IF e >= 2 /\ b <= 1000 THEN BigMulC(BigPow(b, e - 2), b * b, 0)
    ELSE BigMulC(BigPow(b, e - 1), b, 0)

BigGeq(x, y) ==
    IF Len(x) # Len(y) THEN Len(x) > Len(y)
    ELSE LET diff == {i \in 1..Len(x) : x[i] # y[i]}
         IN IF diff = {} THEN TRUE
            ELSE LET m == CHOOSE i \in diff : \A j \in diff : j <= i
                 IN x[m] > y[m]

\* math.ceil(pow(b, exponent)) for b >= 1 and an exponent <= 2 given as
\* <<num, den, above>>: the double equals num/den (above = 0) or lies just
\* above it (above = 1), in which case an exact integer power rounds up.
\* The value is the least n of 1..PowBound with n^den >= b^num (> if
\* above = 1), found by bisection.
Reaches(n, target, ex) ==
    LET p == BigPow(n, ex[2])
    IN IF ex[3] = 1 THEN BigGeq(p, target) /\ p # target ELSE BigGeq(p, target)

RECURSIVE LeastReaching(_, _, _, _)
LeastReaching(lo, hi, target, ex) ==
    IF lo >= hi THEN lo
    ELSE LET mid == (lo + hi) \div 2
         IN IF Reaches(mid, target, ex) THEN LeastReaching(lo, mid, target, ex)
            ELSE LeastReaching(mid + 1, hi, target, ex)

\* an n with n^den >= b^num: b itself for an exponent <= 1 (b + 1 where an
\* exact power rounds up), b * b for an exponent in (1, 2]
PowBound(b, ex) == IF ex[1] <= ex[2] THEN b + ex[3] ELSE b * b

\* (mutant) the power is truncated (int) instead of rounded up (math.ceil)
CeilPowTruncates(b, ex) ==
    IF b = 1 THEN 1
    ELSE LET n == LeastReaching(1, PowBound(b, ex), BigPow(b, ex[1]), ex)
         IN IF ex[3] = 0 /\ BigPow(n, ex[2]) = BigPow(b, ex[1]) THEN n ELSE n - 1

CeilPow(b, ex) == IF b = 1 THEN 1 ELSE LeastReaching(1, PowBound(b, ex), BigPow(b, ex[1]), ex)

PowTable == [ex \in Wide.exps \cup Narrow.exps \cup Taxes.exps |->
                [b \in (1..MaxValue) \cup (Taxes.balances \ {0}) |-> CeilPow(b, ex)]]

PowCeil(b, ex) == PowTable[ex][b]

\* ----------------------------------------------------------- SQL statements
\* (mutant) the upsert overwrites the balance instead of adding to it
UpsertAddOverwrites(tbl, k, amount) ==
    IF k \in DOMAIN tbl THEN [tbl EXCEPT ![k] = amount] ELSE tbl @@ (k :> amount)

\* INSERT ... ON CONFLICT DO UPDATE SET currency = currency + excluded.currency
UpsertAdd(tbl, k, amount) ==
    IF k \in DOMAIN tbl THEN [tbl EXCEPT ![k] = @ + amount] ELSE tbl @@ (k :> amount)

\* INSERT ... ON CONFLICT DO UPDATE SET currency = excluded.currency
UpsertSet(tbl, k, value) ==
    IF k \in DOMAIN tbl THEN [tbl EXCEPT ![k] = value] ELSE tbl @@ (k :> value)

\* (mutant) the UPDATE lacks "AND currency >= ?"
CondDecNoGuard(tbl, k, amount) ==
    IF k \in DOMAIN tbl
    THEN [rowcount |-> 1, tbl |-> [tbl EXCEPT ![k] = @ - amount]]
    ELSE [rowcount |-> 0, tbl |-> tbl]

\* (mutant) the UPDATE tests "currency > ?"
CondDecStrict(tbl, k, amount) ==
    IF k \in DOMAIN tbl /\ tbl[k] > amount
    THEN [rowcount |-> 1, tbl |-> [tbl EXCEPT ![k] = @ - amount]]
    ELSE [rowcount |-> 0, tbl |-> tbl]

\* (mutant) a balance below the amount is emptied instead of refused
CondDecClamp(tbl, k, amount) ==
    IF k \in DOMAIN tbl /\ tbl[k] > 0
    THEN [rowcount |-> 1,
          tbl |-> [tbl EXCEPT ![k] = IF @ >= amount THEN @ - amount ELSE 0]]
    ELSE [rowcount |-> 0, tbl |-> tbl]

\* UPDATE users SET currency = currency - ? WHERE ... AND currency >= ?
ConditionalDecrement(tbl, k, amount) ==
    IF k \in DOMAIN tbl /\ tbl[k] >= amount
    THEN [rowcount |-> 1, tbl |-> [tbl EXCEPT ![k] = @ - amount]]
    ELSE [rowcount |-> 0, tbl |-> tbl]

\* (mutant) the event takes the place of the last event
log_eventReplacesLast(led, ev) ==
    IF led = <<>> THEN <<ev>> ELSE [led EXCEPT ![Len(led)] = ev]

\* ledger_db.log_event: one event appended inside the caller's transaction
Event(g, type, reason, sender, receiver, amount, initiator) ==
    [guild |-> g, type |-> type, reason |-> reason, sender |-> sender,
     receiver |-> receiver, amount |-> amount, initiator |-> initiator]

log_event(led, ev) == Append(led, ev)

\* ------------------------------------------------------------ transactions
Idle == [op |-> "idle", stage |-> "", stat |-> "", reason |-> "", bet |-> 0,
         user |-> 0, recv |-> 0, guild |-> 0,
         amount |-> 0, init |-> 0, exp |-> <<1, 1, 0>>, val |-> 0,
         cash |-> <<>>, stock |-> <<>>, events |-> <<>>, burned |-> 0, affected |-> {}]

NoRet == [proc |-> 0, op |-> "none", kind |-> "none", val |-> 0, val2 |-> 0]

\* kind: "value" (a balance), "None", "True", "False", "done", "raised",
\* "pair" (count, total), "self" / "insufficient" (donate's rejections)
Ret(op, kind, val, val2) == [proc |-> 0, op |-> op, kind |-> kind, val |-> val, val2 |-> val2]

\* what a statement of caller p reads: its own uncommitted writes, else the
\* committed store
ViewUsers(p) == IF txOwner = p THEN txUsers ELSE users
ViewLedger(p) == IF txOwner = p THEN txLedger ELSE ledger
ViewPositions(p) == IF txOwner = p THEN txPositions ELSE positions

\* the write lock is free or already held by p
CanWrite(p) == txOwner \in {0, p}

\* p's statement wrote (u, l, pos) inside p's transaction
Write(p, u, l, pos) ==
    /\ txOwner' = p
    /\ txUsers' = u
    /\ txLedger' = l
    /\ txPositions' = pos
    /\ UNCHANGED <<users, ledger, positions>>

\* conn.commit(): the transaction of p (if any) becomes the committed store
Commit(p) ==
    IF txOwner = p
    THEN /\ users' = txUsers
         /\ ledger' = txLedger
         /\ positions' = txPositions
         /\ txOwner' = 0
         /\ UNCHANGED <<txUsers, txLedger, txPositions>>
    ELSE UNCHANGED <<users, ledger, positions, txOwner, txUsers, txLedger, txPositions>>

\* conn.rollback(), or leaving the connection with an open transaction
Rollback(p) ==
    /\ UNCHANGED <<users, ledger, positions>>
    /\ IF txOwner = p
       THEN /\ txOwner' = 0
            /\ txUsers' = users
            /\ txLedger' = ledger
            /\ txPositions' = positions
       ELSE UNCHANGED <<txOwner, txUsers, txLedger, txPositions>>

Return(p, r) ==
    /\ pc' = [pc EXCEPT ![p] = Idle]
    /\ lastRet' = [r EXCEPT !.proc = p]
    /\ results' = IF p \in DOMAIN results THEN [results EXCEPT ![p] = r] ELSE results
    /\ UNCHANGED others

Goto(p, rec) ==
    /\ pc' = [pc EXCEPT ![p] = rec]
    /\ lastRet' = NoRet
    /\ UNCHANGED results
    /\ UNCHANGED others

\* ------------------------------------------------------------ mint_currency
\* (mutant) mint returns the amount instead of the new balance
MintUpsertReturnsAmount(p, S) ==
    \E u \in S.users, g \in S.guilds, a \in S.amounts, i \in S.inits :
        /\ pc[p].op = "idle"
        /\ CanWrite(p)
        /\ Len(ledger) < S.cap
        /\ LET tbl == UpsertAdd(ViewUsers(p), Key(u, g), a)
           IN /\ Write(p, tbl, ViewLedger(p), ViewPositions(p))
              /\ Goto(p, [Idle EXCEPT !.op = "mint", !.stage = "log", !.user = u,
                                      !.guild = g, !.amount = a, !.init = i, !.val = a])

MintUpsert(p, S) ==
    \E u \in S.users, g \in S.guilds, a \in S.amounts, i \in S.inits :
        /\ pc[p].op = "idle"
        /\ CanWrite(p)
        /\ Len(ledger) < S.cap
        /\ LET tbl == UpsertAdd(ViewUsers(p), Key(u, g), a)
           IN /\ Write(p, tbl, ViewLedger(p), ViewPositions(p))
              /\ Goto(p, [Idle EXCEPT !.op = "mint", !.stage = "log", !.user = u,
                                      !.guild = g, !.amount = a, !.init = i,
                                      !.val = tbl[Key(u, g)]])

\* (mutant) the event records the initiator argument even when none is given
MintLogNoFallback(p) ==
    /\ pc[p].op = "mint" /\ pc[p].stage = "log"
    /\ LET c == pc[p]
       IN Write(p, txUsers,
                log_event(txLedger, Event(c.guild, "MINT", "ADMIN_MINT", SYSTEM_USER_ID,
                                          c.user, c.amount, c.init)),
                txPositions)
    /\ Goto(p, [pc[p] EXCEPT !.stage = "commit"])

MintLog(p) ==
    /\ pc[p].op = "mint" /\ pc[p].stage = "log"
    /\ LET c == pc[p]
           who == IF c.init # 0 THEN c.init ELSE c.user
       IN Write(p, txUsers,
                log_event(txLedger, Event(c.guild, "MINT", "ADMIN_MINT", SYSTEM_USER_ID,
                                          c.user, c.amount, who)),
                txPositions)
    /\ Goto(p, [pc[p] EXCEPT !.stage = "commit"])

MintCommit(p) ==
    /\ pc[p].op = "mint" /\ pc[p].stage = "commit"
    /\ Commit(p)
    /\ Return(p, Ret("mint", "value", pc[p].val, 0))

\* ------------------------------------------------------------ burn_currency
BurnUpdate(p, S) ==
    \E u \in S.users, g \in S.guilds, a \in S.amounts :
        /\ pc[p].op = "idle"
        /\ CanWrite(p)
        /\ LET r == ConditionalDecrement(ViewUsers(p), Key(u, g), a)
           IN /\ r.rowcount = 0 \/ Len(ledger) < S.cap
              /\ Write(p, r.tbl, ViewLedger(p), ViewPositions(p))
              /\ Goto(p, [Idle EXCEPT !.op = "burn",
                                      !.stage = IF r.rowcount = 0 THEN "norow" ELSE "log",
                                      !.user = u, !.guild = g, !.amount = a, !.init = Admin,
                                      !.val = IF r.rowcount = 0 THEN 0 ELSE r.tbl[Key(u, g)]])

BurnInsufficient(p) ==
    /\ pc[p].op = "burn" /\ pc[p].stage = "norow"
    /\ Rollback(p)
    /\ Return(p, Ret("burn", "None", 0, 0))

BurnLog(p) ==
    /\ pc[p].op = "burn" /\ pc[p].stage = "log"
    /\ LET c == pc[p]
       IN Write(p, txUsers,
                log_event(txLedger, Event(c.guild, "BURN", "ADMIN_REMOVE", c.user,
                                          SYSTEM_USER_ID, c.amount, c.init)),
                txPositions)
    /\ Goto(p, [pc[p] EXCEPT !.stage = "commit"])

BurnCommit(p) ==
    /\ pc[p].op = "burn" /\ pc[p].stage = "commit"
    /\ Commit(p)
    /\ Return(p, Ret("burn", "value", pc[p].val, 0))

\* ------------------------------------------- Donate.donate, transfer_currency
\* donate rejects a self-donation and a balance below the amount (get_stat)
\* before it calls transfer_currency
\* (mutant) donate does not compare the receiver with the author
DonateCheckNoSelfCheck(p, S) ==
    \E s \in S.users, r \in S.users, g \in S.guilds, a \in S.amounts :
        /\ pc[p].op = "idle"
        /\ UNCHANGED <<users, ledger, positions, txOwner, txUsers, txLedger, txPositions>>
        /\ IF Currency(users, s, g) < a
           THEN Return(p, Ret("donate", "insufficient", 0, 0))
           ELSE Goto(p, [Idle EXCEPT !.op = "transfer", !.stage = "debit", !.user = s,
                                     !.recv = r, !.guild = g, !.amount = a, !.init = s])

DonateCheck(p, S) ==
    \E s \in S.users, r \in S.users, g \in S.guilds, a \in S.amounts :
        /\ pc[p].op = "idle"
        /\ UNCHANGED <<users, ledger, positions, txOwner, txUsers, txLedger, txPositions>>
        /\ IF r = s
           THEN Return(p, Ret("donate", "self", 0, 0))
           ELSE IF Currency(users, s, g) < a
                THEN Return(p, Ret("donate", "insufficient", 0, 0))
                ELSE Goto(p, [Idle EXCEPT !.op = "transfer", !.stage = "debit", !.user = s,
                                          !.recv = r, !.guild = g, !.amount = a, !.init = s])

\* (mutant) the rowcount of the debit is not looked at
TransferDebitNoCheck(p, S) ==
    /\ pc[p].op = "transfer" /\ pc[p].stage = "debit"
    /\ CanWrite(p)
    /\ Len(ledger) < S.cap
    /\ LET c == pc[p]
           r == ConditionalDecrement(ViewUsers(p), Key(c.user, c.guild), c.amount)
       IN /\ Write(p, r.tbl, ViewLedger(p), ViewPositions(p))
          /\ Goto(p, [c EXCEPT !.stage = "credit"])

TransferDebit(p, S) ==
    /\ pc[p].op = "transfer" /\ pc[p].stage = "debit"
    /\ CanWrite(p)
    /\ LET c == pc[p]
           r == ConditionalDecrement(ViewUsers(p), Key(c.user, c.guild), c.amount)
       IN /\ r.rowcount = 0 \/ Len(ledger) < S.cap
          /\ Write(p, r.tbl, ViewLedger(p), ViewPositions(p))
          /\ Goto(p, [c EXCEPT !.stage = IF r.rowcount = 0 THEN "exit" ELSE "credit"])

\* "return False" leaves the connection; its (empty) transaction ends with it
TransferExit(p) ==
    /\ pc[p].op = "transfer" /\ pc[p].stage = "exit"
    /\ Rollback(p)
    /\ Return(p, Ret("transfer", "False", 0, 0))

\* (mutant) the credit overwrites the receiver's balance
TransferCreditOverwrites(p) ==
    /\ pc[p].op = "transfer" /\ pc[p].stage = "credit"
    /\ LET c == pc[p]
       IN Write(p, UpsertSet(txUsers, Key(c.recv, c.guild), c.amount), txLedger, txPositions)
    /\ Goto(p, [pc[p] EXCEPT !.stage = "log"])

TransferCredit(p) ==
    /\ pc[p].op = "transfer" /\ pc[p].stage = "credit"
    /\ LET c == pc[p]
       IN Write(p, UpsertAdd(txUsers, Key(c.recv, c.guild), c.amount), txLedger, txPositions)
    /\ Goto(p, [pc[p] EXCEPT !.stage = "log"])

TransferLog(p) ==
    /\ pc[p].op = "transfer" /\ pc[p].stage = "log"
    /\ LET c == pc[p]
       IN Write(p, txUsers,
                log_event(txLedger, Event(c.guild, "TRANSFER", "P2P_TRANSFER", c.user,
                                          c.recv, c.amount, c.user)),
                txPositions)
    /\ Goto(p, [pc[p] EXCEPT !.stage = "commit"])

TransferCommit(p) ==
    /\ pc[p].op = "transfer" /\ pc[p].stage = "commit"
    /\ Commit(p)
    /\ Return(p, Ret("transfer", "True", 0, 0))

\* --------------------------------------------- set_currency_balance_and_log
SetRead(p, S) ==
    \E u \in S.users, g \in S.guilds, nb \in S.balances :
        /\ pc[p].op = "idle"
        /\ UNCHANGED <<users, ledger, positions, txOwner, txUsers, txLedger, txPositions>>
        /\ LET current_balance == Currency(ViewUsers(p), u, g)
           IN Goto(p, [Idle EXCEPT !.op = "set", !.stage = "write", !.user = u, !.guild = g,
                                   !.amount = nb, !.init = Admin,
                                   !.val = nb - current_balance])

\* (mutant) the upsert of set adds new_balance to the balance
SetWriteAdds(p, S) ==
    /\ pc[p].op = "set" /\ pc[p].stage = "write"
    /\ CanWrite(p)
    /\ LET c == pc[p]
       IN /\ c.val = 0 \/ Len(ledger) < S.cap
          /\ Write(p, UpsertAdd(ViewUsers(p), Key(c.user, c.guild), c.amount),
                   ViewLedger(p), ViewPositions(p))
          /\ Goto(p, [c EXCEPT !.stage = IF c.val = 0 THEN "commit" ELSE "log"])

\* (mutant) set logs an event whatever the delta
SetWriteAlwaysLogs(p, S) ==
    /\ pc[p].op = "set" /\ pc[p].stage = "write"
    /\ CanWrite(p)
    /\ LET c == pc[p]
       IN /\ Len(ledger) < S.cap
          /\ Write(p, UpsertSet(ViewUsers(p), Key(c.user, c.guild), c.amount),
                   ViewLedger(p), ViewPositions(p))
          /\ Goto(p, [c EXCEPT !.stage = "log"])

SetWrite(p, S) ==
    /\ pc[p].op = "set" /\ pc[p].stage = "write"
    /\ CanWrite(p)
    /\ LET c == pc[p]
       IN /\ c.val = 0 \/ Len(ledger) < S.cap
          /\ Write(p, UpsertSet(ViewUsers(p), Key(c.user, c.guild), c.amount),
                   ViewLedger(p), ViewPositions(p))
          /\ Goto(p, [c EXCEPT !.stage = IF c.val = 0 THEN "commit" ELSE "log"])

\* (mutant) set logs the new balance instead of the delta
SetLogBalance(p) ==
    /\ pc[p].op = "set" /\ pc[p].stage = "log"
    /\ LET c == pc[p]
           ev == IF c.val > 0
                 THEN Event(c.guild, "MINT", "ADMIN_SET", SYSTEM_USER_ID, c.user, c.amount,
                            c.init)
                 ELSE Event(c.guild, "BURN", "ADMIN_SET", c.user, SYSTEM_USER_ID, c.amount,
                            c.init)
       IN Write(p, txUsers, log_event(txLedger, ev), txPositions)
    /\ Goto(p, [pc[p] EXCEPT !.stage = "commit"])

SetLog(p) ==
    /\ pc[p].op = "set" /\ pc[p].stage = "log"
    /\ LET c == pc[p]
           ev == IF c.val > 0
                 THEN Event(c.guild, "MINT", "ADMIN_SET", SYSTEM_USER_ID, c.user, c.val, c.init)
                 ELSE Event(c.guild, "BURN", "ADMIN_SET", c.user, SYSTEM_USER_ID, Abs(c.val),
                            c.init)
       IN Write(p, txUsers, log_event(txLedger, ev), txPositions)
    /\ Goto(p, [pc[p] EXCEPT !.stage = "commit"])

SetCommit(p) ==
    /\ pc[p].op = "set" /\ pc[p].stage = "commit"
    /\ Commit(p)
    /\ Return(p, Ret("set", "done", 0, 0))

\* --------------------------------------------------------- apply_wealth_tax
\* (mutant) the tax is one more than what the power leaves out
TaxOfOneMore(old, ex) == old - PowCeil(old, ex) + 1

\* (mutant) the tax is taken to be what is left
TaxOfReturnsNew(old, ex) == PowCeil(old, ex)

\* tax of one value: old - ceil(old ^ exponent)
TaxOf(old, ex) == old - PowCeil(old, ex)

\* the stage after the two reads: the first non-empty batch, else the commit
TaxAfter(stage, c) ==
    IF stage = "readpos" /\ c.cash # <<>> THEN "cash"
    ELSE IF stage \in {"readpos", "cash"} /\ c.stock # <<>> THEN "stock"
    ELSE IF c.events # <<>> THEN "log"
    ELSE "commit"

TaxReadCash(p, S) ==
    \E g \in S.guilds, ex \in S.exps :
        /\ pc[p].op = "idle"
        /\ UNCHANGED <<users, ledger, positions, txOwner, txUsers, txLedger, txPositions>>
        /\ LET V == ViewUsers(p)
               rowUsers == {u \in S.users : Key(u, g) \in DOMAIN V /\ V[Key(u, g)] > TaxThreshold}
           IN \E rows \in Orders(rowUsers) :
                LET taxed == SelectSeq(rows, LAMBDA u : TaxOf(V[Key(u, g)], ex) > 0)
                    cash_updates == [i \in 1..Len(taxed) |->
                                        [new |-> PowCeil(V[Key(taxed[i], g)], ex),
                                         user |-> taxed[i], guild |-> g]]
                    evs == [i \in 1..Len(taxed) |->
                               Event(g, "BURN", "WEALTH_TAX", taxed[i], SYSTEM_USER_ID,
                                     TaxOf(V[Key(taxed[i], g)], ex), Admin)]
                IN Goto(p, [Idle EXCEPT !.op = "tax", !.stage = "readpos", !.guild = g,
                                        !.exp = ex, !.init = Admin, !.cash = cash_updates,
                                        !.events = evs, !.burned = SumAmounts(evs),
                                        !.affected = {taxed[i] : i \in 1..Len(taxed)}])

\* (mutant) a collateral event names the position's owner as its sender
TaxReadPositionsUserSender(p) ==
    /\ pc[p].op = "tax" /\ pc[p].stage = "readpos"
    /\ UNCHANGED <<users, ledger, positions, txOwner, txUsers, txLedger, txPositions>>
    /\ LET c == pc[p]
           P == ViewPositions(p)
           rowIds == {i \in DOMAIN P : P[i].guild = c.guild /\ P[i].collateral > TaxThreshold}
           NewCollat(i) == PowCeil(P[i].collateral, c.exp)
           NewNotional(i) == ScaledNotional(P[i].notional, NewCollat(i), P[i].collateral)
       IN \E rows \in Orders(rowIds) :
            LET taxed == SelectSeq(rows, LAMBDA i : /\ TaxOf(P[i].collateral, c.exp) > 0
                                                    /\ ~(Abs(NewNotional(i)) < 1))
                stock_updates == [k \in 1..Len(taxed) |->
                                     [collateral |-> NewCollat(taxed[k]),
                                      notional |-> NewNotional(taxed[k]),
                                      id |-> taxed[k]]]
                evs == [k \in 1..Len(taxed) |->
                           Event(c.guild, "BURN", "WEALTH_TAX_COLLATERAL", P[taxed[k]].user,
                                 SYSTEM_USER_ID, TaxOf(P[taxed[k]].collateral, c.exp), c.init)]
                d == [c EXCEPT !.stock = stock_updates, !.events = c.events \o evs,
                               !.burned = c.burned + SumAmounts(evs),
                               !.affected = c.affected \cup {P[taxed[k]].user : k \in 1..Len(taxed)}]
            IN Goto(p, [d EXCEPT !.stage = TaxAfter("readpos", d)])

TaxReadPositions(p) ==
    /\ pc[p].op = "tax" /\ pc[p].stage = "readpos"
    /\ UNCHANGED <<users, ledger, positions, txOwner, txUsers, txLedger, txPositions>>
    /\ LET c == pc[p]
           P == ViewPositions(p)
           rowIds == {i \in DOMAIN P : P[i].guild = c.guild /\ P[i].collateral > TaxThreshold}
           NewCollat(i) == PowCeil(P[i].collateral, c.exp)
           NewNotional(i) == ScaledNotional(P[i].notional, NewCollat(i), P[i].collateral)
       IN \E rows \in Orders(rowIds) :
            LET taxed == SelectSeq(rows, LAMBDA i : /\ TaxOf(P[i].collateral, c.exp) > 0
                                                    /\ ~(Abs(NewNotional(i)) < 1))
                stock_updates == [k \in 1..Len(taxed) |->
                                     [collateral |-> NewCollat(taxed[k]),
                                      notional |-> NewNotional(taxed[k]),
                                      id |-> taxed[k]]]
                evs == [k \in 1..Len(taxed) |->
                           Event(c.guild, "BURN", "WEALTH_TAX_COLLATERAL", COLLATERAL_POOL_ID,
                                 SYSTEM_USER_ID, TaxOf(P[taxed[k]].collateral, c.exp), c.init)]
                d == [c EXCEPT !.stock = stock_updates, !.events = c.events \o evs,
                               !.burned = c.burned + SumAmounts(evs),
                               !.affected = c.affected \cup {P[taxed[k]].user : k \in 1..Len(taxed)}]
            IN Goto(p, [d EXCEPT !.stage = TaxAfter("readpos", d)])

\* (mutant) the cash update adds the new balance to the balance
RECURSIVE ApplyCashAdds(_, _)
ApplyCashAdds(tbl, ups) ==
    IF ups = <<>> THEN tbl
    ELSE LET h == Head(ups)
             k == Key(h.user, h.guild)
         IN ApplyCashAdds(IF k \in DOMAIN tbl THEN [tbl EXCEPT ![k] = @ + h.new] ELSE tbl,
                          Tail(ups))

RECURSIVE ApplyCash(_, _)
ApplyCash(tbl, ups) ==
    IF ups = <<>> THEN tbl
    ELSE LET h == Head(ups)
             k == Key(h.user, h.guild)
         IN ApplyCash(IF k \in DOMAIN tbl THEN [tbl EXCEPT ![k] = h.new] ELSE tbl, Tail(ups))

RECURSIVE ApplyStock(_, _)
ApplyStock(tbl, ups) ==
    IF ups = <<>> THEN tbl
    ELSE LET h == Head(ups)
         IN ApplyStock(IF h.id \in DOMAIN tbl
                       THEN [tbl EXCEPT ![h.id].collateral = h.collateral,
                                        ![h.id].notional = h.notional]
                       ELSE tbl, Tail(ups))

\* (mutant) the cash updates are committed as they are executed
TaxCashAutocommit(p, S) ==
    /\ pc[p].op = "tax" /\ pc[p].stage = "cash"
    /\ CanWrite(p)
    /\ Len(ledger) + Len(pc[p].events) <= S.cap
    /\ users' = ApplyCash(ViewUsers(p), pc[p].cash)
    /\ txUsers' = users'
    /\ UNCHANGED <<ledger, positions, txOwner, txLedger, txPositions>>
    /\ Goto(p, [pc[p] EXCEPT !.stage = TaxAfter("cash", pc[p])])

TaxCash(p, S) ==
    /\ pc[p].op = "tax" /\ pc[p].stage = "cash"
    /\ CanWrite(p)
    /\ Len(ledger) + Len(pc[p].events) <= S.cap
    /\ Write(p, ApplyCash(ViewUsers(p), pc[p].cash), ViewLedger(p), ViewPositions(p))
    /\ Goto(p, [pc[p] EXCEPT !.stage = TaxAfter("cash", pc[p])])

TaxStock(p, S) ==
    /\ pc[p].op = "tax" /\ pc[p].stage = "stock"
    /\ CanWrite(p)
    /\ Len(ledger) + Len(pc[p].events) <= S.cap
    /\ Write(p, ViewUsers(p), ViewLedger(p), ApplyStock(ViewPositions(p), pc[p].stock))
    /\ Goto(p, [pc[p] EXCEPT !.stage = TaxAfter("stock", pc[p])])

\* (mutant) only the first event of the pass is logged
TaxLogFirstOnly(p) ==
    /\ pc[p].op = "tax" /\ pc[p].stage = "log"
    /\ Write(p, txUsers, Append(txLedger, Head(pc[p].events)), txPositions)
    /\ Goto(p, [pc[p] EXCEPT !.stage = "commit"])

\* ledger_db.bulk_log_event
TaxLog(p) ==
    /\ pc[p].op = "tax" /\ pc[p].stage = "log"
    /\ Write(p, txUsers, txLedger \o pc[p].events, txPositions)
    /\ Goto(p, [pc[p] EXCEPT !.stage = "commit"])

\* (mutant) the count returned is the number of events
TaxCommitCountsEvents(p) ==
    /\ pc[p].op = "tax" /\ pc[p].stage = "commit"
    /\ Commit(p)
    /\ Return(p, Ret("tax", "pair", Len(pc[p].events), pc[p].burned))

TaxCommit(p) ==
    /\ pc[p].op = "tax" /\ pc[p].stage = "commit"
    /\ Commit(p)
    /\ Return(p, Ret("tax", "pair", Cardinality(pc[p].affected), pc[p].burned))

\* ------------------------------- increment_stat, decrement_stat, set_stat
\* the columns a StatName names, and the three operations
StatNames == {"currency", "bumps", "xp"}
StatOps == {"increment_stat", "decrement_stat", "set_stat"}

\* The statement of a stat operation, built from stat.value, on the rows
\* (user, guild) -> currency.  On the currency column it is the upsert-add,
\* the guarded decrement or the upsert-set; on another column the upserts
\* create a missing row with the default currency 0 and the UPDATE of
\* decrement_stat creates nothing (bumps and xp are not part of the state).
StatStatement(tbl, op, stat, k, a) ==
    IF stat = "currency"
    THEN CASE op = "increment_stat" -> UpsertAdd(tbl, k, a)
           [] op = "decrement_stat" -> ConditionalDecrement(tbl, k, a).tbl
           [] op = "set_stat" -> UpsertSet(tbl, k, a)
    ELSE IF op = "decrement_stat" THEN tbl ELSE UpsertAdd(tbl, k, 0)

\* (mutant) the operations do not refuse the currency column
StatCallNoGuard(p, S) ==
    \E op \in StatOps, stat \in StatNames, u \in S.users, g \in S.guilds, a \in S.amounts :
        /\ pc[p].op = "idle"
        /\ CanWrite(p)
        /\ Write(p, StatStatement(ViewUsers(p), op, stat, Key(u, g), a),
                 ViewLedger(p), ViewPositions(p))
        /\ Goto(p, [Idle EXCEPT !.op = op, !.stage = "commit", !.stat = stat,
                                !.user = u, !.guild = g, !.amount = a])

\* the call up to its statement: PermissionError for the currency column
\* before the connection is opened, else the statement
StatCall(p, S) ==
    \E op \in StatOps, stat \in StatNames, u \in S.users, g \in S.guilds, a \in S.amounts :
        /\ pc[p].op = "idle"
        /\ IF stat = "currency"
           THEN /\ UNCHANGED <<users, ledger, positions, txOwner, txUsers, txLedger,
                               txPositions>>
                /\ Return(p, Ret(op, "PermissionError", 0, 0))
           ELSE /\ CanWrite(p)
                /\ Write(p, StatStatement(ViewUsers(p), op, stat, Key(u, g), a),
                         ViewLedger(p), ViewPositions(p))
                /\ Goto(p, [Idle EXCEPT !.op = op, !.stage = "commit", !.stat = stat,
                                        !.user = u, !.guild = g, !.amount = a])

StatCommit(p) ==
    /\ pc[p].op \in StatOps /\ pc[p].stage = "commit"
    /\ Commit(p)
    /\ Return(p, Ret(pc[p].op, "done", 0, 0))

\* ------------------------------------------------------------- blackjack
\* RESULT_CONFIG: net_mult and payout_mult as <<num, den>> and the ledger
\* reason ("" for None)
GameResults == {"WIN", "BLACKJACK", "LOSS", "SURRENDER", "PUSH"}

RESULT_CONFIG ==
    [r \in GameResults |->
        CASE r = "WIN" -> [net_mult |-> <<1, 1>>, payout_mult |-> <<2, 1>>,
                           reason |-> "BLACKJACK_WIN"]
          [] r = "BLACKJACK" -> [net_mult |-> <<3, 2>>, payout_mult |-> <<5, 2>>,
                                 reason |-> "BLACKJACK_BLACKJACK"]
          [] r = "LOSS" -> [net_mult |-> <<-1, 1>>, payout_mult |-> <<0, 1>>, reason |-> ""]
          [] r = "SURRENDER" -> [net_mult |-> <<-1, 2>>, payout_mult |-> <<1, 2>>,
                                 reason |-> "BLACKJACK_SURRENDER_RETURN"]
          [] r = "PUSH" -> [net_mult |-> <<0, 1>>, payout_mult |-> <<1, 1>>,
                            reason |-> "BLACKJACK_PUSH"]]

\* int(bet_amount * payout_mult): the multipliers are halves, the product is
\* exact in double arithmetic
Payout(bet_amount, result) ==
    TruncDiv(bet_amount * RESULT_CONFIG[result].payout_mult[1],
             RESULT_CONFIG[result].payout_mult[2])

\* The bet of a new game (the blackjack command, PlayAgainButton) or the
\* double down of the hand in play (check_and_charge): the UPDATE of
\* burn_currency with the player as initiator.
BlackjackCharge(p, S) ==
    \E u \in S.users, g \in S.guilds, bet \in S.amounts, dd \in BOOLEAN :
        /\ IF dd
           THEN /\ pc[p].op = "blackjack" /\ pc[p].stage = "play"
                /\ pc[p].reason = "BLACKJACK_BET"
                /\ u = pc[p].user /\ g = pc[p].guild /\ bet = pc[p].bet
           ELSE pc[p].op = "idle"
        /\ CanWrite(p)
        /\ LET r == ConditionalDecrement(ViewUsers(p), Key(u, g), bet)
           IN /\ r.rowcount = 0 \/ Len(ledger) < S.cap
              /\ Write(p, r.tbl, ViewLedger(p), ViewPositions(p))
              /\ Goto(p, [pc[p] EXCEPT !.op = "blackjack",
                                       !.stage = IF r.rowcount = 0 THEN "norow" ELSE "log",
                                       !.user = u, !.guild = g, !.amount = bet, !.init = u,
                                       !.reason = IF dd THEN "BLACKJACK_DOUBLE_DOWN"
                                                  ELSE "BLACKJACK_BET"])

\* burn_currency returned None: no game is started; a double down is refused
\* (UserError) and the hand stays in play
BlackjackRefused(p) ==
    /\ pc[p].op = "blackjack" /\ pc[p].stage = "norow"
    /\ Rollback(p)
    /\ IF pc[p].reason = "BLACKJACK_BET"
       THEN Return(p, Ret("blackjack", "insufficient", 0, 0))
       ELSE Goto(p, [pc[p] EXCEPT !.stage = "play"])

BlackjackChargeLog(p) ==
    /\ pc[p].op = "blackjack" /\ pc[p].stage = "log"
    /\ LET c == pc[p]
       IN Write(p, txUsers,
                log_event(txLedger, Event(c.guild, "BURN", c.reason, c.user, SYSTEM_USER_ID,
                                          c.amount, c.init)),
                txPositions)
    /\ Goto(p, [pc[p] EXCEPT !.stage = "commit"])

\* the charge is committed: the hand's bet is the bet, or twice the bet after
\* a double down
BlackjackChargeCommit(p) ==
    /\ pc[p].op = "blackjack" /\ pc[p].stage = "commit"
    /\ Commit(p)
    /\ Goto(p, [pc[p] EXCEPT !.stage = "play", !.bet = @ + pc[p].amount])

\* (mutant) the payout is minted whatever its amount
BlackjackEndAlwaysPays(p, S) ==
    \E result \in GameResults :
        /\ pc[p].op = "blackjack" /\ pc[p].stage = "play"
        /\ LET c == pc[p]
               payout == Payout(c.bet, result)
               payout_reason == RESULT_CONFIG[result].reason
           IN IF payout_reason # ""
              THEN /\ CanWrite(p)
                   /\ Len(ledger) < S.cap
                   /\ Write(p, UpsertAdd(ViewUsers(p), Key(c.user, c.guild), payout),
                            ViewLedger(p), ViewPositions(p))
                   /\ Goto(p, [c EXCEPT !.stage = "paylog", !.amount = payout,
                                        !.reason = payout_reason])
              ELSE /\ UNCHANGED <<users, ledger, positions, txOwner, txUsers, txLedger,
                                  txPositions>>
                   /\ Return(p, Ret("blackjack", "nopayout", 0, 0))

\* _end_game, resolve_payout_and_stats: the hand ends with some result; a
\* payout > 0 with a reason is minted with the player as initiator (the
\* upsert of mint_currency)
BlackjackEnd(p, S) ==
    \E result \in GameResults :
        /\ pc[p].op = "blackjack" /\ pc[p].stage = "play"
        /\ LET c == pc[p]
               payout == Payout(c.bet, result)
               payout_reason == RESULT_CONFIG[result].reason
           IN IF payout > 0 /\ payout_reason # ""
              THEN /\ CanWrite(p)
                   /\ Len(ledger) < S.cap
                   /\ Write(p, UpsertAdd(ViewUsers(p), Key(c.user, c.guild), payout),
                            ViewLedger(p), ViewPositions(p))
                   /\ Goto(p, [c EXCEPT !.stage = "paylog", !.amount = payout,
                                        !.reason = payout_reason])
              ELSE /\ UNCHANGED <<users, ledger, positions, txOwner, txUsers, txLedger,
                                  txPositions>>
                   /\ Return(p, Ret("blackjack", "nopayout", 0, 0))

BlackjackPayoutLog(p) ==
    /\ pc[p].op = "blackjack" /\ pc[p].stage = "paylog"
    /\ LET c == pc[p]
       IN Write(p, txUsers,
                log_event(txLedger, Event(c.guild, "MINT", c.reason, SYSTEM_USER_ID, c.user,
                                          c.amount, c.init)),
                txPositions)
    /\ Goto(p, [pc[p] EXCEPT !.stage = "paid"])

BlackjackPayoutCommit(p) ==
    /\ pc[p].op = "blackjack" /\ pc[p].stage = "paid"
    /\ Commit(p)
    /\ Return(p, Ret("blackjack", "paid", pc[p].amount, pc[p].bet))

\* ----------------------------------------------- a BlackjackView, step by step
\* One view (one message) of one player.  A command or a button callback is
\* a caller; it is suspended at its awaits, so callbacks of clicks that
\* arrived together interleave.  burn_currency and mint_currency are taken as
\* one step each here (they are followed statement by statement above).  The
\* table is the blackjack21 Table the view drives: an action that the table's
\* state does not allow raises InvalidActionError.

\* int(bet_amount * net_mult): the multipliers are halves, the product is
\* exact in double arithmetic and int() truncates toward zero
NetCredits(bet_amount, result) ==
    TruncDiv(bet_amount * RESULT_CONFIG[result].net_mult[1],
             RESULT_CONFIG[result].net_mult[2])

\* _update_buttons: the items shown for the state of the table
Buttons(v) ==
    IF v.state = "ROUND_OVER" THEN {"again", "newbet"}
    ELSE IF v.state = "PLAYERS_TURN"
    THEN {"hit", "stand"}
         \cup (IF v.fresh THEN {"double", "surrender"} ELSE {})
         \cup (IF v.fresh /\ v.pair /\ Len(v.hands) = 1 THEN {"split"} ELSE {})
    ELSE {}

\* (mutant) the hand dealt carries twice the bet
DealTwiceTheBet(v, bet, instant, pair, r) ==
    [v EXCEPT !.state = IF instant THEN "ROUND_OVER" ELSE "PLAYERS_TURN",
              !.hands = <<[bet |-> 2 * bet, result |-> IF instant THEN r ELSE ""]>>,
              !.cur = 1, !.fresh = ~instant, !.pair = pair /\ ~instant,
              !.rounds = @ + 1, !.bet = 2 * bet]

\* table.start_game(): one hand of the table's bet is dealt; the round is over
\* at once (result r) when the player or the dealer holds a blackjack
Deal(v, bet, instant, pair, r) ==
    [v EXCEPT !.state = IF instant THEN "ROUND_OVER" ELSE "PLAYERS_TURN",
              !.hands = <<[bet |-> bet, result |-> IF instant THEN r ELSE ""]>>,
              !.cur = 1, !.fresh = ~instant, !.pair = pair /\ ~instant,
              !.rounds = @ + 1, !.bet = bet]

\* the hand in play is finished: the next hand is played, or the round is over
Advance(v) ==
    IF v.cur < Len(v.hands)
    THEN [v EXCEPT !.cur = @ + 1, !.fresh = TRUE, !.pair = FALSE]
    ELSE [v EXCEPT !.state = "ROUND_OVER", !.fresh = FALSE, !.pair = FALSE]

\* what a callback does once the table is v2: _handle_stand_or_dd / _end_game
\* when the round is over (the buttons are disabled first), else
\* _update_buttons and the message edit
AfterAction(p, op, v2) ==
    IF v2.state = "ROUND_OVER"
    THEN /\ view' = [v2 EXCEPT !.buttons = {}]
         /\ pc' = [pc EXCEPT ![p] = [Idle EXCEPT !.op = op, !.stage = "end", !.val = 1,
                                                 !.user = pc[p].user, !.guild = pc[p].guild]]
         /\ lastRet' = NoRet
    ELSE /\ view' = [v2 EXCEPT !.buttons = Buttons(v2)]
         /\ pc' = [pc EXCEPT ![p] = Idle]
         /\ lastRet' = [Ret(op, "applied", 0, 0) EXCEPT !.proc = p]

\* A callback that charges first: the blackjack command ("bet"), Play Again
\* ("again"), Double Down ("double") and Split ("split", both through
\* check_and_charge).  The amount is the command's bet, the view's initial
\* bet, or the bet of the hand in play; burn_currency with the player as
\* initiator.  On None the callback ends (message or UserError).
ViewCharge(p, S) ==
    \E kind \in {"bet", "again", "double", "split"}, u \in S.users, g \in S.guilds,
       bet \in S.amounts :
        /\ pc[p].op = "idle"
        /\ CASE kind = "bet" -> view.state = "NONE" /\ \A q \in DOMAIN pc : pc[q].op # "bet"
             [] kind = "again" -> "again" \in view.buttons /\ bet = view.bet
             [] OTHER -> /\ kind \in view.buttons
                         /\ view.state = "PLAYERS_TURN"
                         /\ bet = view.hands[view.cur].bet
        /\ CanWrite(p) /\ txOwner = 0
        /\ LET r == ConditionalDecrement(users, Key(u, g), bet)
               reason == CASE kind = "double" -> "BLACKJACK_DOUBLE_DOWN"
                           [] kind = "split" -> "BLACKJACK_SPLIT"
                           [] OTHER -> "BLACKJACK_BET"
           IN IF r.rowcount = 0
              THEN /\ UNCHANGED <<store, view>>
                   /\ pc' = [pc EXCEPT ![p] = Idle]
                   /\ lastRet' = [Ret(kind, "insufficient", bet, 0) EXCEPT !.proc = p]
              ELSE /\ Len(ledger) < S.cap
                   /\ users' = r.tbl
                   /\ ledger' = log_event(ledger, Event(g, "BURN", reason, u, SYSTEM_USER_ID,
                                                        bet, u))
                   /\ txUsers' = users' /\ txLedger' = ledger'
                   /\ UNCHANGED <<positions, txOwner, txPositions, view>>
                   /\ pc' = [pc EXCEPT ![p] = [Idle EXCEPT !.op = kind, !.stage = "charged",
                                                           !.user = u, !.guild = g,
                                                           !.amount = bet]]
                   /\ lastRet' = NoRet
        /\ UNCHANGED <<results, blackjack_stats, daily, txDaily, cogs>>

\* After the charge: BlackjackView(...) / table.start_game() for a bet,
\* table.start_game() for Play Again (on a round still in play the table
\* either starts over or raises), table.double_down(), table.split().  When
\* the table raises the callback reports the error and ends.
TableAct(p) ==
    /\ pc[p].stage = "charged"
    /\ UNCHANGED <<store, results, blackjack_stats, daily, txDaily, cogs>>
    /\ LET c == pc[p]
           hand == view.hands[view.cur]
           Raised == /\ view' = view
                     /\ pc' = [pc EXCEPT ![p] = Idle]
                     /\ lastRet' = [Ret(c.op, "error", c.amount, 0) EXCEPT !.proc = p]
       IN CASE c.op \in {"bet", "again"} ->
                 \/ \E instant, pair \in BOOLEAN, r \in {"BLACKJACK", "PUSH", "LOSS"} :
                        AfterAction(p, c.op, Deal(view, c.amount, instant, pair, r))
                 \/ c.op = "again" /\ view.state = "PLAYERS_TURN" /\ Raised
            [] c.op = "double" ->
                 IF view.state = "PLAYERS_TURN" /\ view.fresh
                 THEN AfterAction(p, c.op,
                                  Advance([view EXCEPT !.hands[view.cur].bet = 2 * hand.bet]))
                 ELSE Raised
            [] c.op = "split" ->
                 IF view.state = "PLAYERS_TURN" /\ view.fresh /\ view.pair
                    /\ Len(view.hands) = 1
                 THEN AfterAction(p, c.op,
                                  [view EXCEPT !.hands = <<hand, hand>>, !.pair = FALSE])
                 ELSE Raised

\* HitButton, StandButton, SurrenderButton: the table action comes first, with
\* no await before it
Move(p, S) ==
    \E b \in {"hit", "stand", "surrender"}, bust \in BOOLEAN, u \in S.users, g \in S.guilds :
        /\ pc[p].op = "idle"
        /\ b \in view.buttons
        /\ UNCHANGED <<store, results, blackjack_stats, daily, txDaily, cogs>>
        /\ IF view.state = "PLAYERS_TURN" /\ (b = "surrender" => view.fresh)
           THEN LET v2 == CASE b = "hit" /\ ~bust ->
                                 [view EXCEPT !.fresh = FALSE, !.pair = FALSE]
                            [] b = "hit" /\ bust ->
                                 Advance([view EXCEPT !.hands[view.cur].result = "LOSS"])
                            [] b = "stand" -> Advance(view)
                            [] b = "surrender" ->
                                 Advance([view EXCEPT !.hands[view.cur].result = "SURRENDER"])
                IN AfterAction(p, b, v2)
           ELSE /\ view' = view
                /\ pc' = [pc EXCEPT ![p] = Idle]
                /\ lastRet' = [Ret(b, "error", 0, 0) EXCEPT !.proc = p]

\* _end_game, one hand at a time: resolve_payout_and_stats adds
\* int(bet * net_mult) to net_credits and mints a payout > 0 that has a reason
\* with the player as initiator; after the last hand _update_buttons.  The
\* result of a hand that was neither surrendered nor bust is the dealer's.
ResolveHand(p, S) ==
    \E res \in {"WIN", "LOSS", "PUSH"}, u \in S.users, g \in S.guilds :
        /\ pc[p].stage = "end"
        /\ UNCHANGED <<positions, txOwner, txPositions, results, daily, txDaily, cogs>>
        /\ LET i == pc[p].val
               last == i >= Len(view.hands)
               Done == /\ pc' = [pc EXCEPT ![p] = Idle]
                       /\ lastRet' = [Ret(pc[p].op, "over", 0, 0) EXCEPT !.proc = p]
                       /\ view' = [view EXCEPT !.buttons = Buttons(view)]
           IN IF i > Len(view.hands)
              THEN /\ Done
                   /\ UNCHANGED <<users, ledger, txUsers, txLedger, blackjack_stats>>
              ELSE LET h == view.hands[i]
                       result == IF h.result # "" THEN h.result ELSE res
                       payout == Payout(h.bet, result)
                       payout_reason == RESULT_CONFIG[result].reason
                   IN /\ blackjack_stats' =
                            [blackjack_stats EXCEPT
                                !.net_credits = @ + NetCredits(h.bet, result)]
                      /\ IF payout > 0 /\ payout_reason # ""
                         THEN /\ txOwner = 0
                              /\ Len(ledger) < S.cap
                              /\ users' = UpsertAdd(users, Key(u, g), payout)
                              /\ ledger' = log_event(ledger,
                                               Event(g, "MINT", payout_reason, SYSTEM_USER_ID,
                                                     u, payout, u))
                              /\ txUsers' = users' /\ txLedger' = ledger'
                         ELSE UNCHANGED <<users, ledger, txUsers, txLedger>>
                      /\ IF last THEN Done
                         ELSE /\ pc' = [pc EXCEPT ![p].val = i + 1]
                              /\ lastRet' = NoRet
                              /\ view' = view

\* ------------------------------------------- daily claims and the daily reset
\* The columns has_claimed_daily and daily_reminder_preference of the users
\* table, by (discord_id, guild_id).  The statements go through the one write
\* lock of the database.
\* (mutant) the upsert sets has_claimed_daily whatever it was
ClaimUpsertNoWhere(tbl, k) ==
    IF k \notin DOMAIN tbl
    THEN [tbl |-> tbl @@ (k :> [claimed |-> 1, pref |-> "NEVER"]), rowcount |-> 1]
    ELSE [tbl |-> [tbl EXCEPT ![k].claimed = 1], rowcount |-> 1]

\* INSERT ... (has_claimed_daily) VALUES (1) ON CONFLICT DO UPDATE SET
\* has_claimed_daily = 1 WHERE has_claimed_daily = 0, and its rowcount
ClaimUpsert(tbl, k) ==
    IF k \notin DOMAIN tbl
    THEN [tbl |-> tbl @@ (k :> [claimed |-> 1, pref |-> "NEVER"]), rowcount |-> 1]
    ELSE IF tbl[k].claimed = 0
    THEN [tbl |-> [tbl EXCEPT ![k].claimed = 1], rowcount |-> 1]
    ELSE [tbl |-> tbl, rowcount |-> 0]

\* a step of a daily operation: the ledger tables, the blackjack view and the
\* results are left alone
DailyStep(p, rec, ret) ==
    /\ pc' = [pc EXCEPT ![p] = rec]
    /\ lastRet' = [ret EXCEPT !.proc = IF ret = NoRet THEN 0 ELSE p]
    /\ UNCHANGED <<users, ledger, positions, txUsers, txLedger, txPositions, results, view,
                   blackjack_stats, cogs>>

\* attempt_daily_claim: the upsert, then commit and return rowcount == 1
ClaimExecute(p, S) ==
    \E u \in S.users, g \in S.guilds :
        /\ pc[p].op = "idle"
        /\ CanWrite(p)
        /\ LET r == ClaimUpsert(IF txOwner = p THEN txDaily ELSE daily, Key(u, g))
           IN /\ txOwner' = p
              /\ txDaily' = r.tbl
              /\ daily' = daily
              /\ DailyStep(p, [Idle EXCEPT !.op = "claim", !.stage = "commit", !.user = u,
                                           !.guild = g, !.val = r.rowcount], NoRet)

ClaimCommit(p) ==
    /\ pc[p].op = "claim" /\ pc[p].stage = "commit"
    /\ daily' = txDaily /\ txOwner' = 0 /\ txDaily' = txDaily
    /\ DailyStep(p, Idle, Ret("claim", IF pc[p].val = 1 THEN "True" ELSE "False",
                              pc[p].user, pc[p].guild))

\* set_daily_reminder_preference: the upsert and its commit
SetPreference(p, S) ==
    \E u \in S.users, g \in S.guilds, preference \in {"NEVER", "ONCE", "ALWAYS"} :
        /\ pc[p].op = "idle"
        /\ txOwner = 0
        /\ daily' = IF Key(u, g) \in DOMAIN daily
                    THEN [daily EXCEPT ![Key(u, g)].pref = preference]
                    ELSE daily @@ (Key(u, g) :> [claimed |-> 0, pref |-> preference])
        /\ txDaily' = daily' /\ txOwner' = 0
        /\ DailyStep(p, Idle, Ret("set_preference", "done", u, g))

\* process_daily_reset_all: the SELECT DISTINCT discord_id of the users with a
\* preference in ('ALWAYS', 'ONCE'), the UPDATE of every row, the commit
ResetSelect(p) ==
    /\ pc[p].op = "idle"
    /\ UNCHANGED <<daily, txDaily, txOwner>>
    /\ LET V == daily
           user_ids_to_remind == {k[1] : k \in {x \in DOMAIN V :
                                                    V[x].pref \in {"ALWAYS", "ONCE"}}}
       IN DailyStep(p, [Idle EXCEPT !.op = "reset", !.stage = "update",
                                    !.affected = user_ids_to_remind], NoRet)

ResetUpdate(p) ==
    /\ pc[p].op = "reset" /\ pc[p].stage = "update"
    /\ CanWrite(p)
    /\ LET V == IF txOwner = p THEN txDaily ELSE daily
       IN txDaily' = [k \in DOMAIN V |->
                         [claimed |-> 0,
                          pref |-> IF V[k].pref = "ONCE" THEN "NEVER" ELSE V[k].pref]]
    /\ txOwner' = p /\ daily' = daily
    /\ DailyStep(p, [pc[p] EXCEPT !.stage = "commit"], NoRet)

ResetCommit(p) ==
    /\ pc[p].op = "reset" /\ pc[p].stage = "commit"
    /\ daily' = txDaily /\ txOwner' = 0 /\ txDaily' = txDaily
    /\ DailyStep(p, Idle, Ret("reset", "users", pc[p].affected, 0))

\* ---------------------------------------------------------- get_leaderboard
\* (mutant) a row is placed before the rows of the same value
InsertDescBeforeTies(sorted, r, stat) ==
    LET n == Len(SelectSeq(sorted, LAMBDA x : x[stat] > r[stat]))
    IN SubSeq(sorted, 1, n) \o <<r>> \o SubSeq(sorted, n + 1, Len(sorted))

\* r placed into rows sorted by stat DESC, after the rows of the same value:
\* the sort SQLite does for the window (a temporary b-tree keyed by the
\* value and the sequence number of the row in the scan)
InsertDesc(sorted, r, stat) ==
    LET n == Len(SelectSeq(sorted, LAMBDA x : x[stat] >= r[stat]))
    IN SubSeq(sorted, 1, n) \o <<r>> \o SubSeq(sorted, n + 1, Len(sorted))

\* ORDER BY stat DESC of the window, rows taken in scan order
RECURSIVE SortDesc(_, _)
SortDesc(rows, stat) ==
    IF rows = <<>> THEN <<>>
    ELSE InsertDesc(SortDesc(SubSeq(rows, 1, Len(rows) - 1), stat), rows[Len(rows)], stat)

\* RANK() OVER (ORDER BY stat DESC): 1 + the number of rows of a higher value
RankOf(sorted, i, stat) ==
    1 + Len(SelectSeq(sorted, LAMBDA x : x[stat] > sorted[i][stat]))

\* SELECT RANK() ..., discord_id, stat FROM v_user_stats
\* WHERE guild_id = ? AND stat > 0 LIMIT ?   (tbl: the rows in rowid order)
get_leaderboard(tbl, g, stat, limit) ==
    LET rows == SelectSeq(tbl, LAMBDA r : r.guild_id = g /\ r[stat] > 0)
        sorted == SortDesc(rows, stat)
        n == IF limit < Len(sorted) THEN limit ELSE Len(sorted)
    IN [i \in 1..n |-> <<RankOf(sorted, i, stat), sorted[i].discord_id, sorted[i][stat]>>]

GetLeaderboard(p, S) ==
    \E g \in S.guilds, stat \in S.stats, limit \in S.limits :
        /\ pc[p].op = "idle"
        /\ UNCHANGED <<users, ledger, positions, txOwner, txUsers, txLedger, txPositions>>
        /\ Return(p, Ret("get_leaderboard", "rows", get_leaderboard(users, g, stat, limit),
                         [guild |-> g, stat |-> stat, limit |-> limit]))

\* ------------------------------------------------------------------- faults
\* A statement of the transaction raises (storage error).  mint, burn and set
\* roll back and re-raise; transfer rolls back and returns False; the tax has
\* no handler: the exception leaves the connection, which ends the
\* transaction.
InTry(c) ==
    \/ c.op \in {"mint", "burn", "set", "tax"}
    \/ c.op = "transfer" /\ c.stage # "exit"

\* (mutant) the handler commits instead of rolling back
FaultCommits(p) ==
    /\ InTry(pc[p])
    /\ Commit(p)
    /\ LET wrote == IF txOwner = p THEN 1 ELSE 0
       IN Return(p, IF pc[p].op = "transfer" THEN Ret("transfer", "False", 1, wrote)
                    ELSE Ret(pc[p].op, "raised", 0, wrote))

\* (val2 = 1: the caller had written before the statement that raised)
Fault(p) ==
    /\ InTry(pc[p])
    /\ Rollback(p)
    /\ LET wrote == IF txOwner = p THEN 1 ELSE 0
       IN Return(p, IF pc[p].op = "transfer" THEN Ret("transfer", "False", 1, wrote)
                    ELSE Ret(pc[p].op, "raised", 0, wrote))

\* the first statement of mint, burn, set or tax raises
FaultAtCall(p, S) ==
    \E op \in S.ops :
        /\ pc[p].op = "idle"
        /\ Rollback(p)
        /\ Return(p, Ret(op, "raised", 0, 0))

\* --------------------------------------------------------------- the system
Start(ps) ==
    /\ users = <<>>
    /\ ledger = <<>>
    /\ txOwner = 0
    /\ txUsers = users
    /\ txLedger = ledger
    /\ txPositions = positions
    /\ pc = [p \in ps |-> Idle]
    /\ lastRet = NoRet
    /\ results = <<>>
    /\ OthersInit

Mint(p, S) == MintUpsert(p, S) \/ MintLog(p) \/ MintCommit(p)
Burn(p, S) == BurnUpdate(p, S) \/ BurnInsufficient(p) \/ BurnLog(p) \/ BurnCommit(p)
Transfer(p, S) == \/ DonateCheck(p, S) \/ TransferDebit(p, S) \/ TransferExit(p)
                  \/ TransferCredit(p) \/ TransferLog(p) \/ TransferCommit(p)
SetBalance(p, S) == SetRead(p, S) \/ SetWrite(p, S) \/ SetLog(p) \/ SetCommit(p)
WealthTax(p, S) == \/ TaxReadCash(p, S) \/ TaxReadPositions(p) \/ TaxCash(p, S)
                   \/ TaxStock(p, S) \/ TaxLog(p) \/ TaxCommit(p)

\* interleaved callers, all operations
Init == positions \in InitPositions /\ Start(Procs)

Next ==
    \E p \in Procs :
        \/ Mint(p, Narrow) \/ Burn(p, Narrow) \/ Transfer(p, Narrow)
        \/ SetBalance(p, Narrow) \/ WealthTax(p, Narrow)
        \/ Fault(p) \/ FaultAtCall(p, Narrow)

Spec == Init /\ [][Next]_vars

\* interleaved callers of mint, burn and donate
InitLedger == positions = <<>> /\ Start(Procs)

NextLedger ==
    \E p \in Procs :
        \/ Mint(p, Core) \/ Burn(p, Core) \/ Transfer(p, Core)
        \/ Fault(p) \/ FaultAtCall(p, Core)

SpecLedger == InitLedger /\ [][NextLedger]_vars

\* one caller at a time, all operations (donate's balance check then keeps
\* transfer_currency from finding the sender short)
InitSeq == positions \in InitPositions /\ Start({1})

NextSeq ==
    \/ Mint(1, Wide) \/ Burn(1, Wide)
    \/ DonateCheck(1, Wide) \/ TransferDebit(1, Wide) \/ TransferCredit(1)
    \/ TransferLog(1) \/ TransferCommit(1)
    \/ SetBalance(1, Wide) \/ WealthTax(1, Wide)
    \/ Fault(1) \/ FaultAtCall(1, Wide)

SpecSeq == InitSeq /\ [][NextSeq]_vars

\* interleaved callers, all operations, without storage faults
InitRace == positions \in InitPositions /\ Start(Procs)

NextRace ==
    \E p \in Procs :
        \/ Mint(p, Race) \/ Burn(p, Race) \/ Transfer(p, Race)
        \/ SetBalance(p, Race) \/ WealthTax(p, Race)

SpecRace == InitRace /\ [][NextRace]_vars

\* interleaved callers of all operations and of the stat operations
InitStats == positions \in InitPositions /\ Start(Procs)

NextStats ==
    \E p \in Procs :
        \/ Mint(p, Narrow) \/ Burn(p, Narrow) \/ Transfer(p, Narrow)
        \/ SetBalance(p, Narrow) \/ WealthTax(p, Narrow)
        \/ StatCall(p, Narrow) \/ StatCommit(p)

SpecStats == InitStats /\ [][NextStats]_vars

\* get_leaderboard over tables of accounts; here users holds the rows of the
\* table in rowid order (the order in which the accounts were created)
BoardRows == [discord_id : Board.users, guild_id : Board.guilds,
              currency : Board.balances, xp : Board.xps]

BoardTables ==
    {t \in UNION {[1..n -> BoardRows] : n \in 0..Cardinality(Board.users)} :
        \A i, j \in DOMAIN t :
            (t[i].discord_id = t[j].discord_id /\ t[i].guild_id = t[j].guild_id) => i = j}

InitBoard ==
    /\ users \in BoardTables
    /\ ledger = <<>>
    /\ positions = <<>>
    /\ txOwner = 0
    /\ txUsers = users
    /\ txLedger = ledger
    /\ txPositions = positions
    /\ pc = [p \in {1} |-> Idle]
    /\ lastRet = NoRet
    /\ results = <<>>
    /\ OthersInit

NextBoard == GetLeaderboard(1, Board)

SpecBoard == InitBoard /\ [][NextBoard]_vars

Blackjack(p, S) == \/ BlackjackCharge(p, S) \/ BlackjackRefused(p) \/ BlackjackChargeLog(p)
                   \/ BlackjackChargeCommit(p) \/ BlackjackEnd(p, S)
                   \/ BlackjackPayoutLog(p) \/ BlackjackPayoutCommit(p)

\* one caller at a time: the admin commands, donate and blackjack, in a guild
\* with one position
InitGames == positions = <<Pos(1, 1, 12, 24)>> /\ Start({1})

NextGames ==
    \/ Mint(1, Games) \/ Burn(1, Games)
    \/ DonateCheck(1, Games) \/ TransferDebit(1, Games) \/ TransferCredit(1)
    \/ TransferLog(1) \/ TransferCommit(1)
    \/ SetBalance(1, Games) \/ WealthTax(1, Games)
    \/ Blackjack(1, Games)

SpecGames == InitGames /\ [][NextGames]_vars

\* one tax pass over accounts that one mint each created
InitTax ==
    \E bal \in [Taxes.users -> Taxes.balances] :
        /\ users = [k \in {Key(u, 1) : u \in {v \in Taxes.users : bal[v] > 0}} |-> bal[k[1]]]
        /\ ledger = SelectSeq([u \in 1..Cardinality(Taxes.users) |->
                                  Event(1, "MINT", "ADMIN_MINT", SYSTEM_USER_ID, u, bal[u],
                                        Admin)],
                              LAMBDA e : e.amount > 0)
        /\ positions \in TaxPositions
        /\ txOwner = 0
        /\ txUsers = users
        /\ txLedger = ledger
        /\ txPositions = positions
        /\ pc = [p \in {1} |-> Idle]
        /\ lastRet = NoRet
        /\ results = [p \in {1} |-> NoRet]
        /\ OthersInit

NextTax ==
    \/ results[1] = NoRet /\ TaxReadCash(1, Taxes)
    \/ TaxReadPositions(1) \/ TaxCash(1, Taxes) \/ TaxStock(1, Taxes)
    \/ TaxLog(1) \/ TaxCommit(1)

SpecTax == InitTax /\ [][NextTax]_vars

\* one caller at a time, all operations, in two guilds that each hold a
\* position of user 1
InitIso == positions = <<Pos(1, 1, 12, 24), Pos(1, 2, 24, 48)>> /\ Start({1})

NextIso ==
    \/ Mint(1, Iso) \/ Burn(1, Iso)
    \/ DonateCheck(1, Iso) \/ TransferDebit(1, Iso) \/ TransferCredit(1)
    \/ TransferLog(1) \/ TransferCommit(1)
    \/ SetBalance(1, Iso) \/ WealthTax(1, Iso)

SpecIso == InitIso /\ [][NextIso]_vars

\* the clicks on one blackjack view; callbacks of clicks that arrived
\* together interleave
InitRounds ==
    \E b \in Rounds.balances :
        /\ users = IF b = 0 THEN <<>> ELSE (Key(1, 1) :> b)
        /\ ledger = IF b = 0 THEN <<>>
                    ELSE <<Event(1, "MINT", "ADMIN_MINT", SYSTEM_USER_ID, 1, b, Admin)>>
        /\ positions = <<>>
        /\ txOwner = 0
        /\ txUsers = users
        /\ txLedger = ledger
        /\ txPositions = positions
        /\ pc = [p \in Procs |-> Idle]
        /\ lastRet = NoRet
        /\ results = <<>>
        /\ OthersInit

NextRounds ==
    \E p \in Procs :
        \/ ViewCharge(p, Rounds) \/ TableAct(p) \/ Move(p, Rounds)
        \/ ResolveHand(p, Rounds)

SpecRounds == InitRounds /\ [][NextRounds]_vars

\* interleaved callers of attempt_daily_claim, set_daily_reminder_preference
\* and process_daily_reset_all
InitDaily == positions = <<>> /\ Start(Procs)

NextDaily ==
    \E p \in Procs :
        \/ ClaimExecute(p, Days) \/ ClaimCommit(p) \/ SetPreference(p, Days)
        \/ ResetSelect(p) \/ ResetUpdate(p) \/ ResetCommit(p)

SpecDaily == InitDaily /\ [][NextDaily]_vars

\* ------------------------------------------------------------ reminders cog
\* The reminders table is keyed by message_id; the model gives reminder i the
\* message id i and a remind_at that grows with i, so the row with the least id
\* is the one that ORDER BY remind_at ASC LIMIT 1 returns.
get_next_reminder(rs) == IF rs = {} THEN 0 ELSE CHOOSE i \in rs : \A j \in rs : i <= j

\* the state of the cogs that the reminder steps leave alone
NotReminders == <<store, pc, lastRet, results, view, blackjack_stats, daily, txDaily,
                  activity_cache, flush, active_users, added>>

\* Task.cancel(): a request that the task meets at its next step; nothing for a
\* finished task
Cancel(ts, t) ==
    IF t \in DOMAIN ts /\ ts[t].kind = "timer" THEN [ts EXCEPT ![t].cancel = TRUE] ELSE ts

\* the task in slot t ends: a _timer_task that still names it names a done task
Finish(t) ==
    /\ tasks' = [tasks EXCEPT ![t] = NoTask]
    /\ timer' = [timer EXCEPT !.task = IF @ = t THEN DoneTask ELSE @]

\* the finally block of wait_and_dispatch: self._next_reminder_msg_id = None
ClearNext(t) == 0

\* on_message: a message with a future time is stored by add_reminder, and the
\* handler goes on to schedule_next
Post(i) ==
    /\ messages[i] = "none" /\ i \notin due
    /\ \E t \in DOMAIN tasks :
        /\ tasks[t].kind = "free" /\ \A x \in DOMAIN tasks : x < t => tasks[x].kind # "free"
        /\ tasks' = [tasks EXCEPT ![t] = [NoTask EXCEPT !.kind = "handler", !.stage = "query"]]
    /\ reminders' = reminders \cup {i}
    /\ messages' = [messages EXCEPT ![i] = "posted"]
    /\ UNCHANGED <<due, sent, timer, NotReminders>>

\* on_message_delete: delete_reminder_by_message_id for the deleted message,
\* whether a reminder is stored for it or not, then schedule_next
MessageDelete(i) ==
    /\ messages[i] = "posted"
    /\ \E t \in DOMAIN tasks :
        /\ tasks[t].kind = "free" /\ \A x \in DOMAIN tasks : x < t => tasks[x].kind # "free"
        /\ tasks' = [tasks EXCEPT ![t] = [NoTask EXCEPT !.kind = "handler", !.stage = "query"]]
    /\ reminders' = reminders \ {i}
    /\ messages' = [messages EXCEPT ![i] = "deleted"]
    /\ UNCHANGED <<due, sent, timer, NotReminders>>

\* time passes: the remind_at of the next reminder is reached
Due(i) ==
    /\ i \in 1 .. MaxReminders /\ i \notin due
    /\ \A j \in 1 .. MaxReminders : j < i => j \in due
    /\ due' = due \cup {i}
    /\ UNCHANGED <<reminders, messages, sent, timer, tasks, NotReminders>>

\* schedule_next, first line: reminder = await get_next_reminder(). A timer
\* task that is cancelled while it awaits here (in its finally block) ends.
Query(t) ==
    /\ tasks[t].stage = "query"
    /\ IF tasks[t].cancel
       THEN Finish(t)
       ELSE /\ tasks' = [tasks EXCEPT ![t].reminder = get_next_reminder(reminders),
                                      ![t].stage = "rest"]
            /\ UNCHANGED timer
    /\ UNCHANGED <<reminders, messages, due, sent, NotReminders>>

\* schedule_next, the lines after the await, which run without interruption,
\* and the end of the caller. The task that is created takes the slot of the
\* caller; its delay is positive unless the time has come.
Rest(t) ==
    /\ tasks[t].stage = "rest"
    /\ LET reminder == tasks[t].reminder
           waiting == timer.task \in DOMAIN tasks /\ timer.next = reminder
       IN IF tasks[t].cancel
          THEN Finish(t)
          ELSE IF reminder = 0
          THEN /\ tasks' = [Cancel(tasks, timer.task) EXCEPT ![t] = NoTask]
               /\ timer' = [task |-> 0, next |-> IF timer.task = 0 THEN timer.next ELSE 0]
          ELSE IF waiting
          THEN Finish(t)
          ELSE /\ tasks' = [Cancel(tasks, timer.task) EXCEPT
                               ![t] = [NoTask EXCEPT !.kind = "timer", !.stage = "new",
                                                     !.target = reminder,
                                                     !.sleep = reminder \notin due]]
               /\ timer' = [task |-> t, next |-> reminder]
    /\ UNCHANGED <<reminders, messages, due, sent, NotReminders>>

\* the first step of wait_and_dispatch: a task cancelled before it ends at
\* once; otherwise it sleeps, or calls send_reminder when the delay is 0
TaskStart(t) ==
    /\ tasks[t].kind = "timer" /\ tasks[t].stage = "new"
    /\ IF tasks[t].cancel
       THEN Finish(t) /\ UNCHANGED sent
       ELSE /\ tasks' = [tasks EXCEPT ![t].stage = IF tasks[t].sleep THEN "sleep" ELSE "send"]
            /\ sent' = IF tasks[t].sleep THEN sent ELSE sent \cup {tasks[t].target}
            /\ UNCHANGED timer
    /\ UNCHANGED <<reminders, messages, due, NotReminders>>

\* asyncio.sleep(delay) returns and send_reminder is called
TaskWake(t) ==
    /\ tasks[t].kind = "timer" /\ tasks[t].stage = "sleep" /\ ~tasks[t].cancel
    /\ tasks[t].target \in due
    /\ tasks' = [tasks EXCEPT ![t].stage = "send"]
    /\ sent' = sent \cup {tasks[t].target}
    /\ UNCHANGED <<reminders, messages, due, timer, NotReminders>>

\* send_reminder returns, delete_reminder_by_message_id deletes the row, and the
\* finally block clears _next_reminder_msg_id and calls schedule_next
TaskDispatch(t) ==
    /\ tasks[t].kind = "timer" /\ tasks[t].stage = "send" /\ ~tasks[t].cancel
    /\ reminders' = reminders \ {tasks[t].target}
    /\ timer' = [timer EXCEPT !.next = ClearNext(t)]
    /\ tasks' = [tasks EXCEPT ![t].stage = "query"]
    /\ UNCHANGED <<messages, due, sent, NotReminders>>

\* CancelledError reaches a task in asyncio.sleep or in send_reminder: the
\* except clause logs, the finally block runs as above
TaskCancelled(t) ==
    /\ tasks[t].kind = "timer" /\ tasks[t].stage \in {"sleep", "send"} /\ tasks[t].cancel
    /\ timer' = [timer EXCEPT !.next = ClearNext(t)]
    /\ tasks' = [tasks EXCEPT ![t].stage = "query", ![t].cancel = FALSE]
    /\ UNCHANGED <<reminders, messages, due, sent, NotReminders>>

\* the steps of the task in slot t
Run(t) ==
    \/ Query(t) \/ Rest(t) \/ TaskStart(t) \/ TaskWake(t) \/ TaskDispatch(t)
    \/ TaskCancelled(t)

\* the cog after start_scheduler: no reminder stored, no timer
InitReminders == positions = <<>> /\ Start({1})

NextReminders ==
    \/ \E i \in 1 .. MaxReminders : Post(i) \/ MessageDelete(i) \/ Due(i)
    \/ \E t \in 1 .. MaxTasks :
        \/ Query(t) \/ Rest(t) \/ TaskStart(t) \/ TaskWake(t) \/ TaskDispatch(t)
        \/ TaskCancelled(t)

SpecReminders == InitReminders /\ [][NextReminders]_vars

\* the event loop runs every task that can run, queries and sends end, and
\* time passes; nothing makes users post or delete messages
SpecRemindersFair ==
    /\ SpecReminders
    /\ \A t \in 1 .. MaxTasks : WF_vars(Run(t))
    /\ WF_vars(\E i \in 1 .. MaxReminders : Due(i))

\* ------------------------------------------------------------- activity cog
\* the state that the activity steps leave alone
NotActivity == <<store, pc, lastRet, results, view, blackjack_stats, daily, txDaily,
                 reminders, messages, due, sent, timer, tasks>>

\* _cache_user_activity, called by the listeners: nothing for a bot
CacheUserActivity(user, guild_id, bot) ==
    /\ activity_cache' = IF bot THEN activity_cache
                         ELSE activity_cache \cup {<<user, guild_id>>}
    /\ added' = IF bot THEN added ELSE added \cup {<<user, guild_id>>}
    /\ UNCHANGED <<flush, active_users, NotActivity>>

\* flush_activity_cache up to its await: the cache is copied and cleared (the
\* loop starts no iteration before the last one has ended; an iteration that
\* finds the cache empty returns)
FlushStart ==
    /\ ~flush.running /\ activity_cache # {}
    /\ flush' = [running |-> TRUE, activity_to_flush |-> activity_cache, raised |-> FALSE]
    /\ activity_cache' = {}
    /\ UNCHANGED <<active_users, added, NotActivity>>

\* (mutant) the cache is cleared after update_active_users has returned
FlushDoneClearsLate ==
    /\ flush.running
    /\ active_users' = active_users \cup flush.activity_to_flush
    /\ flush' = [running |-> FALSE, activity_to_flush |-> {}, raised |-> FALSE]
    /\ activity_cache' = {}
    /\ UNCHANGED <<added, NotActivity>>

\* update_active_users has upserted the rows and committed
FlushDone ==
    /\ flush.running
    /\ active_users' = active_users \cup flush.activity_to_flush
    /\ flush' = [running |-> FALSE, activity_to_flush |-> {}, raised |-> FALSE]
    /\ UNCHANGED <<activity_cache, added, NotActivity>>

\* update_active_users has raised: the batch is put back into the cache
FlushFail ==
    /\ flush.running
    /\ activity_cache' = activity_cache \cup flush.activity_to_flush
    /\ flush' = [running |-> FALSE, activity_to_flush |-> {}, raised |-> TRUE]
    /\ UNCHANGED <<active_users, added, NotActivity>>

InitActivity == positions = <<>> /\ Start({1})

NextActivity ==
    \/ \E user \in 1 .. MaxActive, guild_id \in {1, 2}, bot \in BOOLEAN :
           CacheUserActivity(user, guild_id, bot)
    \/ FlushStart
    \/ FlushDone
    \/ FlushFail

SpecActivity == InitActivity /\ [][NextActivity]_vars

\* N concurrent burns of BurnAmount, one per caller, against a balance of
\* k * BurnAmount that one mint created (no account when k = 0)
InitBurns ==
    \E k \in 0..NumBurners :
        /\ users = IF k = 0 THEN <<>> ELSE (Key(1, 1) :> k * BurnAmount)
        /\ ledger = IF k = 0 THEN <<>>
                    ELSE <<Event(1, "MINT", "ADMIN_MINT", SYSTEM_USER_ID, 1, k * BurnAmount,
                                 Admin)>>
        /\ positions = <<>>
        /\ txOwner = 0
        /\ txUsers = users
        /\ txLedger = ledger
        /\ txPositions = positions
        /\ pc = [p \in 1..NumBurners |-> Idle]
        /\ lastRet = NoRet
        /\ results = [p \in 1..NumBurners |-> NoRet]
        /\ OthersInit

NextBurns ==
    \E p \in 1..NumBurners :
        \/ results[p] = NoRet /\ BurnUpdate(p, Burners)
        \/ BurnInsufficient(p) \/ BurnLog(p) \/ BurnCommit(p)

SpecBurns == InitBurns /\ [][NextBurns]_vars

\* ------------------------------------------------------------- properties
RECURSIVE SumKeys(_, _)
SumKeys(tbl, K) ==
    IF K = {} THEN 0
    ELSE LET k == CHOOSE x \in K : TRUE IN tbl[k] + SumKeys(tbl, K \ {k})

\* sum of the balances of guild g
GuildTotal(tbl, g) == SumKeys(tbl, {k \in DOMAIN tbl : k[2] = g})

\* sum of the amounts of the events of a ledger that satisfy Test
SumWhere(led, Test(_)) == SumAmounts(SelectSeq(led, Test))

GuildsSeen == Wide.guilds \cup Narrow.guilds \cup Core.guilds
UsersSeen == Wide.users \cup Narrow.users \cup Core.users

\* the events a step appended
NewEvents == SubSeq(ledger', Len(ledger) + 1, Len(ledger'))

Extends == Len(ledger') >= Len(ledger) /\ SubSeq(ledger', 1, Len(ledger)) = ledger

\* caller p returns in this step
Returns(p, op) == pc[p].op = op /\ pc'[p].op = "idle" /\ lastRet'.proc = p

\* the return reports a storage fault
IsFault(r) == r.kind = "raised" \/ (r.kind = "False" /\ r.val = 1)

\* C1: at every committed state the balances of a guild sum to the amounts of
\* its MINT events minus the amounts of its BURN events (mint, burn, transfer).
C1_Conservation ==
    \A g \in GuildsSeen :
        GuildTotal(users, g) =
            SumWhere(ledger, LAMBDA e : e.guild = g /\ e.type = "MINT")
            - SumWhere(ledger, LAMBDA e : e.guild = g /\ e.type = "BURN")

\* a mint, a transfer and a burn are committed and value is left
C1_Witness ==
    /\ \E i \in DOMAIN ledger : ledger[i].type = "BURN"
    /\ \E i \in DOMAIN ledger : ledger[i].type = "TRANSFER"
    /\ GuildTotal(users, 1) > 0

\* C2: no balance is negative, committed or inside an open transaction, under
\* any interleaving of mint, burn, transfer, set and wealth tax.
C2_NonNegative ==
    /\ \A k \in DOMAIN users : users[k] >= 0
    /\ \A k \in DOMAIN txUsers : txUsers[k] >= 0

\* a burn was refused while an account stands at 0 after a wealth tax ran
C2_Witness ==
    /\ lastRet.op = "burn" /\ lastRet.kind = "None"
    /\ \E k \in DOMAIN users : users[k] = 0
    /\ \E i \in DOMAIN ledger : ledger[i].reason = "WEALTH_TAX"

\* the balance the scenario of the concurrent burns started from, in units of
\* BurnAmount
StartUnits ==
    IF ledger # <<>> /\ ledger[1].type = "MINT" THEN ledger[1].amount \div BurnAmount ELSE 0

BurnCount == Len(SelectSeq(ledger, LAMBDA e : e.type = "BURN"))

\* C3: of N concurrent burns of A against a balance of k * A exactly k return
\* a balance and N - k return None; k BURN events are appended, the balance
\* ends at 0, and at every moment it is the start less the committed burns.
C3_ConcurrentBurns ==
    /\ Currency(users, 1, 1) = (StartUnits - BurnCount) * BurnAmount
    /\ Cardinality({p \in DOMAIN results : results[p].kind = "value"}) <= BurnCount
    /\ (\A p \in DOMAIN results : results[p] # NoRet)
         => /\ Cardinality({p \in DOMAIN results : results[p].kind = "value"}) = StartUnits
            /\ Cardinality({p \in DOMAIN results : results[p].kind = "None"})
                 = Cardinality(DOMAIN results) - StartUnits
            /\ BurnCount = StartUnits
            /\ Len(ledger) = BurnCount + (IF StartUnits > 0 THEN 1 ELSE 0)
            /\ Currency(users, 1, 1) = 0

\* all N have returned, some with a balance and some with None
C3_Witness ==
    /\ DOMAIN results # {}
    /\ \A p \in DOMAIN results : results[p] # NoRet
    /\ \E p \in DOMAIN results : results[p].kind = "value"
    /\ \E p \in DOMAIN results : results[p].kind = "None"

\* caller p starts a burn in this step
BurnStarts(p) == pc[p].op = "idle" /\ pc'[p].op = "burn"

\* C4: a burn of more than the account holds (or of an absent account) writes
\* nothing, returns None, creates no account and appends no event.
C4_BurnRefused ==
    [][\A p \in DOMAIN pc :
         /\ (BurnStarts(p)
             /\ pc'[p].amount > Currency(users, pc'[p].user, pc'[p].guild))
              => /\ pc'[p].stage = "norow"
                 /\ txUsers' = users /\ txLedger' = ledger
                 /\ users' = users /\ ledger' = ledger
         /\ (Returns(p, "burn") /\ pc[p].stage = "norow")
              => /\ lastRet'.kind = "None" \/ IsFault(lastRet')
                 /\ users' = users /\ ledger' = ledger
                 /\ txUsers' = users /\ txLedger' = ledger]_vars

\* a burn returned None although every user holds a positive balance
C4_Witness ==
    /\ lastRet.op = "burn" /\ lastRet.kind = "None"
    /\ \A u \in Core.users : Key(u, 1) \in DOMAIN users /\ users[Key(u, 1)] > 0

Primitives == {"mint", "burn", "transfer", "set"}

BalanceChanged ==
    \E u \in UsersSeen, g \in GuildsSeen : Currency(users', u, g) # Currency(users, u, g)

\* C5: a fault inside mint, burn, transfer or set leaves the committed
\* balances and ledger as they were and discards what the operation wrote;
\* a step of these operations changes a committed balance exactly when it
\* appends to the committed ledger.
C5_FaultAtomic ==
    [][\A p \in DOMAIN pc :
         /\ (pc[p].op \in Primitives /\ Returns(p, pc[p].op) /\ IsFault(lastRet'))
              => /\ users' = users /\ ledger' = ledger
                 /\ txOwner' # p
                 /\ txOwner = p => (txUsers' = users /\ txLedger' = ledger)
         /\ (pc[p].op \in Primitives /\ pc'[p] # pc[p])
              => (BalanceChanged <=> ledger' # ledger)]_vars

\* a transfer failed after its debit was written, with events already committed
C5_Witness ==
    /\ lastRet.op = "transfer" /\ IsFault(lastRet) /\ lastRet.val2 = 1
    /\ ledger # <<>>

Involves(e, u, g) == e.guild = g /\ (e.sender = u \/ e.receiver = u)

\* C6: with one operation at a time, a step changes an account's committed
\* balance by d # 0 exactly when it appends one event of amount |d| naming the
\* account as receiver (d > 0) or sender (d < 0); so every balance is what
\* the account received less what it sent.
C6_Correspondence ==
    [][/\ Extends
       /\ \A u \in UsersSeen, g \in GuildsSeen :
            LET d == Currency(users', u, g) - Currency(users, u, g)
                evs == SelectSeq(NewEvents, LAMBDA e : Involves(e, u, g))
            IN /\ d = 0 => evs = <<>>
               /\ d > 0 => Len(evs) = 1 /\ evs[1].receiver = u /\ evs[1].amount = d
               /\ d < 0 => Len(evs) = 1 /\ evs[1].sender = u /\ evs[1].amount = -d
               /\ Currency(users', u, g) =
                    SumWhere(ledger', LAMBDA e : e.guild = g /\ e.receiver = u)
                    - SumWhere(ledger', LAMBDA e : e.guild = g /\ e.sender = u)]_vars

\* a set that raised a balance and a wealth tax that lowered one are committed
C6_Witness ==
    /\ lastRet.op = "tax" /\ lastRet.kind = "pair" /\ lastRet.val >= 1
    /\ \E i \in DOMAIN ledger : ledger[i].reason = "WEALTH_TAX"
    /\ \E i \in DOMAIN ledger : ledger[i].reason = "ADMIN_SET" /\ ledger[i].type = "MINT"

\* every account but those in ks is the same before and after the step
OthersUnchanged(ks) ==
    /\ DOMAIN users \subseteq DOMAIN users'
    /\ \A k \in DOMAIN users' \ ks : k \in DOMAIN users /\ users'[k] = users[k]

\* caller p executes the debit of its transfer in this step
DebitStep(p) ==
    /\ pc[p].op = "transfer" /\ pc[p].stage = "debit"
    /\ pc'[p].op = "transfer" /\ pc'[p].stage # "debit"

\* C7: a transfer whose sender holds at least the amount at the debit goes on
\* to the credit; once past the debit it returns True unless a fault strikes;
\* returning True it has taken the amount from the sender, given it to the
\* receiver (created if absent), appended one TRANSFER event sender ->
\* receiver of that amount, and left the guild's total as it was.
C7_TransferSucceeds ==
    [][\A p \in DOMAIN pc :
         LET c == pc[p]
             s == Key(c.user, c.guild)
             r == Key(c.recv, c.guild)
         IN /\ (DebitStep(p) /\ Currency(users, c.user, c.guild) >= c.amount)
                 => pc'[p].stage = "credit"
            /\ (Returns(p, "transfer") /\ c.stage \in {"credit", "log", "commit"})
                 => (lastRet'.kind = "True" \/ IsFault(lastRet'))
            /\ (Returns(p, "transfer") /\ lastRet'.kind = "True")
                 => /\ s \in DOMAIN users /\ users'[s] = users[s] - c.amount
                    /\ r \in DOMAIN users'
                    /\ users'[r] = Currency(users, c.recv, c.guild) + c.amount
                    /\ OthersUnchanged({s, r})
                    /\ ledger' = Append(ledger, Event(c.guild, "TRANSFER", "P2P_TRANSFER",
                                                      c.user, c.recv, c.amount, c.user))
                    /\ GuildTotal(users', c.guild) = GuildTotal(users, c.guild)]_vars

\* a transfer returned True to a receiver who already held a balance
C7_Witness ==
    /\ lastRet.op = "transfer" /\ lastRet.kind = "True"
    /\ ledger # <<>>
    /\ LET e == ledger[Len(ledger)]
       IN /\ e.type = "TRANSFER"
          /\ Key(e.receiver, e.guild) \in DOMAIN users
          /\ users[Key(e.receiver, e.guild)] > e.amount

\* C8: a transfer whose sender holds less than the amount at the debit (or has
\* no account) writes nothing and returns False; no balance changes, no
\* receiver account is created and no event is appended.
C8_TransferRefused ==
    [][\A p \in DOMAIN pc :
         LET c == pc[p]
         IN /\ (DebitStep(p) /\ Currency(users, c.user, c.guild) < c.amount)
                 => /\ pc'[p].stage = "exit"
                    /\ txUsers' = users /\ txLedger' = ledger
                    /\ users' = users /\ ledger' = ledger
            /\ (Returns(p, "transfer") /\ c.stage = "exit")
                 => /\ lastRet'.kind = "False"
                    /\ users' = users /\ ledger' = ledger
                    /\ txUsers' = users /\ txLedger' = ledger]_vars

\* a transfer returned False for lack of funds, its receiver having no account
C8_Witness ==
    /\ lastRet.op = "transfer" /\ lastRet.kind = "False" /\ lastRet.val = 0
    /\ \E u \in Core.users : Key(u, 1) \notin DOMAIN users

\* C9: mint is never refused: it returns a balance unless a fault strikes;
\* returning, it has added the amount to the account (created with that
\* amount if absent), the value returned is the new balance, and one MINT
\* event SYSTEM -> user of that amount has been appended.
C9_Mint ==
    [][\A p \in DOMAIN pc :
         LET c == pc[p]
             k == Key(c.user, c.guild)
         IN /\ Returns(p, "mint") => (lastRet'.kind = "value" \/ IsFault(lastRet'))
            /\ (Returns(p, "mint") /\ lastRet'.kind = "value")
                 => /\ k \in DOMAIN users'
                    /\ users'[k] = Currency(users, c.user, c.guild) + c.amount
                    /\ lastRet'.val = users'[k]
                    /\ OthersUnchanged({k})
                    /\ Len(ledger') = Len(ledger) + 1
                    /\ Extends
                    /\ LET e == ledger'[Len(ledger')]
                       IN /\ e.type = "MINT" /\ e.guild = c.guild
                          /\ e.sender = SYSTEM_USER_ID /\ e.receiver = c.user
                          /\ e.amount = c.amount]_vars

\* a mint onto an existing balance and a mint creating an account have returned
C9_Witness ==
    /\ lastRet.op = "mint" /\ lastRet.kind = "value" /\ lastRet.val = 17
    /\ Cardinality(DOMAIN users) = 2

\* C10: a burn goes on to its BURN event exactly when the account holds at
\* least the amount at the update; returning a balance, it has taken the
\* amount from the account, the value returned is the new balance, and one
\* BURN event user -> SYSTEM of that amount has been appended.
C10_Burn ==
    [][\A p \in DOMAIN pc :
         LET c == pc[p]
             k == Key(c.user, c.guild)
         IN /\ BurnStarts(p)
                 => /\ pc'[p].stage \in {"log", "norow"}
                    /\ pc'[p].stage = "log"
                         <=> Currency(users, pc'[p].user, pc'[p].guild) >= pc'[p].amount
            /\ (Returns(p, "burn") /\ c.stage \in {"log", "commit"})
                 => (lastRet'.kind = "value" \/ IsFault(lastRet'))
            /\ (Returns(p, "burn") /\ lastRet'.kind = "value")
                 => /\ c.stage = "commit"
                    /\ k \in DOMAIN users /\ users'[k] = users[k] - c.amount
                    /\ lastRet'.val = users'[k]
                    /\ OthersUnchanged({k})
                    /\ Len(ledger') = Len(ledger) + 1
                    /\ Extends
                    /\ LET e == ledger'[Len(ledger')]
                       IN /\ e.type = "BURN" /\ e.guild = c.guild
                          /\ e.sender = c.user /\ e.receiver = SYSTEM_USER_ID
                          /\ e.amount = c.amount]_vars

\* a burn of part of a balance has returned what was left
C10_Witness ==
    /\ lastRet.op = "burn" /\ lastRet.kind = "value" /\ lastRet.val = 7
    /\ ledger # <<>> /\ ledger[Len(ledger)].type = "BURN"

\* C11: with one operation at a time, set_currency_balance_and_log leaves the
\* balance at new_balance and, delta being new_balance less the previous
\* balance (0 for an absent account), appends one MINT event SYSTEM -> user of
\* amount delta if delta > 0, one BURN event user -> SYSTEM of amount -delta
\* if delta < 0, and nothing if delta = 0.
C11_SetBalance ==
    [][\A p \in DOMAIN pc :
         LET c == pc[p]
             k == Key(c.user, c.guild)
             delta == c.amount - Currency(users, c.user, c.guild)
         IN /\ Returns(p, "set") => (lastRet'.kind = "done" \/ IsFault(lastRet'))
            /\ (Returns(p, "set") /\ lastRet'.kind = "done")
                 => /\ k \in DOMAIN users' /\ users'[k] = c.amount
                    /\ OthersUnchanged({k})
                    /\ Extends
                    /\ delta > 0 => NewEvents = <<Event(c.guild, "MINT", "ADMIN_SET",
                                                        SYSTEM_USER_ID, c.user, delta, c.init)>>
                    /\ delta < 0 => NewEvents = <<Event(c.guild, "BURN", "ADMIN_SET", c.user,
                                                        SYSTEM_USER_ID, -delta, c.init)>>
                    /\ delta = 0 => NewEvents = <<>>]_vars

\* a set has lowered a balance: its BURN event is the last of the ledger
C11_Witness ==
    /\ lastRet.op = "set" /\ lastRet.kind = "done"
    /\ ledger # <<>>
    /\ LET e == ledger[Len(ledger)]
       IN /\ e.type = "BURN" /\ e.reason = "ADMIN_SET" /\ e.amount = 7
          /\ users[Key(e.sender, e.guild)] = 5

\* C12: with one operation at a time, a set whose new_balance is the
\* account's balance appends no event and leaves the balance as it was; every
\* set leaves the balance at new_balance and appends at most one event, so
\* the second of two equal sets in a row appends none.
C12_SetNoOp ==
    [][\A p \in DOMAIN pc :
         LET c == pc[p]
         IN (Returns(p, "set") /\ lastRet'.kind = "done")
              => /\ Currency(users', c.user, c.guild) = c.amount
                 /\ Len(ledger') <= Len(ledger) + 1
                 /\ c.amount = Currency(users, c.user, c.guild)
                      => /\ ledger' = ledger
                         /\ \A u \in UsersSeen, g \in GuildsSeen :
                                Currency(users', u, g) = Currency(users, u, g)]_vars

\* a set to the balance the account already held has returned
C12_Witness ==
    /\ lastRet.op = "set" /\ lastRet.kind = "done"
    /\ Len(ledger) = 1 /\ ledger[1].reason = "ADMIN_MINT" /\ ledger[1].amount = 12
    /\ users = (Key(ledger[1].receiver, 1) :> 12)

\* caller p leaves a primitive in this step otherwise than by its normal
\* return or its insufficient-funds branch: a statement has failed
FailureStep(p) ==
    /\ pc[p].op \in Primitives
    /\ Returns(p, pc[p].op)
    /\ ~(pc[p].op = "burn" /\ pc[p].stage = "norow" /\ lastRet'.kind = "None")
    /\ ~(pc[p].op = "transfer" /\ pc[p].stage = "exit")
    /\ lastRet'.kind \notin {"value", "True", "done"}

\* C13: a failure during mint, burn, transfer or set is rolled back and
\* reaches the caller as a raised fault, never as the insufficient-funds
\* result (None of burn, False of transfer).
C13_FaultsRaise ==
    [][\A p \in DOMAIN pc :
         FailureStep(p)
           => /\ lastRet'.kind = "raised"
              /\ users' = users /\ ledger' = ledger]_vars

\* a transfer whose credit or ledger insert failed has returned False
C13_Witness ==
    /\ lastRet.op = "transfer" /\ lastRet.kind = "False"
    /\ lastRet.val = 1 /\ lastRet.val2 = 1
    /\ \E k \in DOMAIN users : users[k] >= 12

CommittedUnchanged == users' = users /\ ledger' = ledger /\ positions' = positions

\* C14: with one operation at a time, nothing of a tax pass is committed
\* before its commit; a failure after some of its updates discards them all;
\* its commit publishes every cash update, every position update and every
\* event of the pass together.
C14_TaxAtomic ==
    [][\A p \in DOMAIN pc :
         LET c == pc[p]
         IN c.op = "tax"
              => /\ pc'[p].op = "tax" => CommittedUnchanged
                 /\ (Returns(p, "tax") /\ IsFault(lastRet'))
                      => /\ CommittedUnchanged
                         /\ txOwner' # p
                         /\ txUsers' = users /\ txLedger' = ledger
                         /\ txPositions' = positions
                 /\ (Returns(p, "tax") /\ lastRet'.kind = "pair")
                      => /\ \A i \in DOMAIN c.cash :
                                users'[Key(c.cash[i].user, c.cash[i].guild)] = c.cash[i].new
                         /\ \A i \in DOMAIN c.stock :
                                /\ positions'[c.stock[i].id].collateral = c.stock[i].collateral
                                /\ positions'[c.stock[i].id].notional = c.stock[i].notional
                         /\ ledger' = ledger \o c.events]_vars

\* a tax pass failed after it had written, and left the balance it was to tax
C14_Witness ==
    /\ lastRet.op = "tax" /\ lastRet.kind = "raised" /\ lastRet.val2 = 1
    /\ \E k \in DOMAIN users : users[k] > TaxThreshold
    /\ \A i \in DOMAIN ledger : ledger[i].reason # "WEALTH_TAX"

\* what the ledger says account (u, g) holds: received less sent
Replay(led, u, g) ==
    SumWhere(led, LAMBDA e : e.guild = g /\ e.receiver = u)
    - SumWhere(led, LAMBDA e : e.guild = g /\ e.sender = u)

\* C15: no balance of the guild changes between a tax pass's read of the
\* balances and its commit, and the amount of every WEALTH_TAX event is what
\* the commit of the pass took from the account.
C15_TaxSerializable ==
    [][\A p \in DOMAIN pc :
         LET c == pc[p]
         IN c.op = "tax"
              => /\ pc'[p].op = "tax"
                      => \A u \in UsersSeen :
                             Currency(users', u, c.guild) = Currency(users, u, c.guild)
                 /\ (Returns(p, "tax") /\ lastRet'.kind = "pair")
                      => \A i \in DOMAIN NewEvents :
                             NewEvents[i].reason = "WEALTH_TAX"
                               => NewEvents[i].amount =
                                    Currency(users, NewEvents[i].sender, c.guild)
                                    - Currency(users', NewEvents[i].sender, c.guild)]_vars

\* a tax pass has committed and an account no longer holds what the ledger says
C15_Witness ==
    /\ lastRet.op = "tax" /\ lastRet.kind = "pair"
    /\ \E i \in DOMAIN ledger : ledger[i].reason = "WEALTH_TAX"
    /\ \E u \in UsersSeen : Currency(users, u, 1) # Replay(ledger, u, 1)

\* C16: the event a set appends accounts for the difference between the
\* balance it writes and the balance the account held just before the write,
\* so every account holds what the ledger says.
C16_SetSerializable ==
    [][\A p \in DOMAIN pc :
         LET c == pc[p]
         IN (Returns(p, "set") /\ lastRet'.kind = "done")
              => /\ Replay(NewEvents, c.user, c.guild) =
                      c.amount - Currency(users, c.user, c.guild)
                 /\ Currency(users', c.user, c.guild) = Replay(ledger', c.user, c.guild)]_vars

\* a set has committed and the account no longer holds what the ledger says
C16_Witness ==
    /\ lastRet.op = "set" /\ lastRet.kind = "done"
    /\ \A i \in DOMAIN ledger : ledger[i].reason \notin {"WEALTH_TAX", "WEALTH_TAX_COLLATERAL"}
    /\ \E u \in UsersSeen : Currency(users, u, 1) # Replay(ledger, u, 1)

\* sum of the collateral of the positions of guild g
RECURSIVE CollateralTotal(_, _)
CollateralTotal(pos, g) ==
    IF pos = <<>> THEN 0
    ELSE (IF Head(pos).guild = g THEN Head(pos).collateral ELSE 0)
         + CollateralTotal(Tail(pos), g)

C18_TaxFormula ==
    [][\A p \in DOMAIN pc :
         LET c == pc[p]
         IN (Returns(p, "tax") /\ lastRet'.kind = "pair")
              => \A u \in UsersSeen :
                   LET old == Currency(users, u, c.guild)
                       new == Currency(users', u, c.guild)
                       evs == SelectSeq(NewEvents, LAMBDA e : Involves(e, u, c.guild))
                   IN /\ old <= TaxThreshold => new = old
                      /\ old > TaxThreshold
                           => new = (IF PowCeil(old, c.exp) < old THEN PowCeil(old, c.exp)
                                     ELSE old)
                      /\ (old = 1000 /\ c.exp = <<9, 10, 1>>)
                           => /\ new = 502
                              /\ Len(evs) = 1
                              /\ evs[1].reason = "WEALTH_TAX" /\ evs[1].type = "BURN"
                              /\ evs[1].amount = 498 /\ evs[1].sender = u]_vars

\* a pass has taxed 1000 down to 502 and left an account of 10 alone
C18_Witness ==
    /\ lastRet.op = "tax" /\ lastRet.kind = "pair"
    /\ \E u \in UsersSeen, v \in UsersSeen :
         /\ Currency(users, u, 1) = 502 /\ Replay(ledger, u, 1) = 502
         /\ Currency(users, v, 1) = 10 /\ Replay(ledger, v, 1) = 10

\* the exponent <<num, den, above>> is below 1
BelowOne(ex) == ex[1] < ex[2]

\* C19: a tax pass with an exponent below 1 leaves every balance between 0
\* and what it was before the pass.
C19_TaxMonotone ==
    [][\A p \in DOMAIN pc :
         (Returns(p, "tax") /\ lastRet'.kind = "pair" /\ BelowOne(pc[p].exp))
           => \A u \in UsersSeen :
                /\ 0 <= Currency(users', u, pc[p].guild)
                /\ Currency(users', u, pc[p].guild) <= Currency(users, u, pc[p].guild)]_vars

\* a pass with exponent 0.5 has taken a balance of 24 down to 5
C19_Witness ==
    /\ lastRet.op = "tax" /\ lastRet.kind = "pair"
    /\ \E i \in DOMAIN ledger : ledger[i].reason = "WEALTH_TAX" /\ ledger[i].amount = 19
    /\ \E u \in UsersSeen : Currency(users, u, 1) = 5 /\ Replay(ledger, u, 1) = 5

\* C20 (as stated): with an exponent below 1 the total a tax pass returns is
\* the sum over the accounts of what the pass took from their balances.
C20_TotalRemoved ==
    [][\A p \in DOMAIN pc :
         (Returns(p, "tax") /\ lastRet'.kind = "pair" /\ BelowOne(pc[p].exp))
           => lastRet'.val2 =
                GuildTotal(users, pc[p].guild) - GuildTotal(users', pc[p].guild)]_vars

\* C20 (amended): with an exponent below 1 the total a tax pass returns is
\* what the pass took from the balances of the accounts plus what it took
\* from the collateral of the positions.
C20_TotalRemovedAmended ==
    [][\A p \in DOMAIN pc :
         (Returns(p, "tax") /\ lastRet'.kind = "pair" /\ BelowOne(pc[p].exp))
           => lastRet'.val2 =
                (GuildTotal(users, pc[p].guild) - GuildTotal(users', pc[p].guild))
                + (CollateralTotal(positions, pc[p].guild)
                   - CollateralTotal(positions', pc[p].guild))]_vars

\* a pass has returned 500: 498 of a balance of 1000 and 2 of a collateral of 12
C20_Witness ==
    /\ lastRet.op = "tax" /\ lastRet.kind = "pair" /\ lastRet.val2 = 500
    /\ \E u \in UsersSeen : Currency(users, u, 1) = 502
    /\ CollateralTotal(positions, 1) = 10
    /\ \A u \in UsersSeen : Currency(users, u, 1) \in {0, 502}

\* a tax pass of caller p returns in this step
TaxReturns(p) == Returns(p, "tax") /\ lastRet'.kind = "pair"

\* the positions of guild g whose collateral this step lowered
ReducedPositions(g) ==
    {i \in DOMAIN positions :
        positions[i].guild = g /\ positions'[i].collateral < positions[i].collateral}

\* the users this step took from in guild g: a lower balance, or a lower
\* collateral of one of their positions
ReducedUsers(g) ==
    {u \in UsersSeen : \/ Currency(users', u, g) < Currency(users, u, g)
                       \/ \E i \in ReducedPositions(g) : positions[i].user = u}

\* C21: the count a tax pass returns is the number of distinct users that
\* had a balance or the collateral of a position lowered by the pass.
C21_AffectedCount ==
    [][\A p \in DOMAIN pc :
         TaxReturns(p) => lastRet'.val = Cardinality(ReducedUsers(pc[p].guild))]_vars

\* a pass at 0.9 has taxed user 1 on cash (1000) and on two positions (12 and
\* 24), left user 2 alone, and returned a count of 1
C21_Witness ==
    /\ lastRet.op = "tax" /\ lastRet.kind = "pair" /\ lastRet.val = 1
    /\ lastRet.val2 = 498 + 2 + 6
    /\ Currency(users, 1, 1) = 502
    /\ Len(positions) = 2
    /\ positions[1].collateral = 10 /\ positions[2].collateral = 18
    /\ positions[1].user = 1 /\ positions[2].user = 1

\* the number of the elements of a sequence that satisfy a test on amounts
CountAmount(evs, a) == Len(SelectSeq(evs, LAMBDA e : e.amount = a))

\* C22: a tax pass appends one event per account it lowered (reason
\* WEALTH_TAX, sender the account's user, amount what was taken) and one per
\* position it lowered (reason WEALTH_TAX_COLLATERAL, amount what was taken),
\* each a BURN with receiver SYSTEM and the pass's initiator, and no others.
C22_TaxAttribution ==
    [][\A p \in DOMAIN pc :
         TaxReturns(p) =>
           LET g == pc[p].guild
               cashEvs == SelectSeq(NewEvents, LAMBDA e : e.reason = "WEALTH_TAX")
               collEvs == SelectSeq(NewEvents, LAMBDA e : e.reason = "WEALTH_TAX_COLLATERAL")
               Taken(i) == positions[i].collateral - positions'[i].collateral
           IN /\ Len(NewEvents) = Len(cashEvs) + Len(collEvs)
              /\ \A k \in DOMAIN NewEvents :
                    /\ NewEvents[k].guild = g
                    /\ NewEvents[k].type = "BURN"
                    /\ NewEvents[k].receiver = SYSTEM_USER_ID
                    /\ NewEvents[k].initiator = pc[p].init
              /\ \A u \in UsersSeen :
                    LET mine == SelectSeq(cashEvs, LAMBDA e : e.sender = u)
                        taken == Currency(users, u, g) - Currency(users', u, g)
                    IN IF taken > 0
                       THEN Len(mine) = 1 /\ mine[1].amount = taken
                       ELSE mine = <<>>
              /\ \A k \in DOMAIN cashEvs : cashEvs[k].sender \in UsersSeen
              /\ Len(collEvs) = Cardinality(ReducedPositions(g))
              /\ \A i \in ReducedPositions(g) :
                    CountAmount(collEvs, Taken(i))
                      = Cardinality({j \in ReducedPositions(g) : Taken(j) = Taken(i)})]_vars

\* a pass at 0.9 has appended one WEALTH_TAX event of 498 and the collateral
\* events of 2 and 6 for the two positions of the same user
C22_Witness ==
    /\ lastRet.op = "tax" /\ lastRet.kind = "pair"
    /\ Len(ledger) >= 3
    /\ LET last3 == SubSeq(ledger, Len(ledger) - 2, Len(ledger))
       IN /\ last3[1].reason = "WEALTH_TAX" /\ last3[1].amount = 498
          /\ {last3[2].reason, last3[3].reason} = {"WEALTH_TAX_COLLATERAL"}
          /\ {last3[2].amount, last3[3].amount} = {2, 6}
          /\ \A k \in 1..3 : last3[k].receiver = SYSTEM_USER_ID /\ last3[k].initiator = Admin

\* C23: a donate to oneself returns without touching the store, no call of
\* transfer_currency has sender = receiver, and no TRANSFER event has.
C23_SelfTransferRejected ==
    [][/\ (lastRet'.op = "donate" /\ lastRet'.kind = "self")
            => UNCHANGED <<users, ledger, positions, txOwner, txUsers, txLedger, txPositions>>
       /\ \A p \in DOMAIN pc : pc'[p].op = "transfer" => pc'[p].user # pc'[p].recv
       /\ \A i \in DOMAIN ledger' :
             ledger'[i].type = "TRANSFER" => ledger'[i].sender # ledger'[i].receiver
       /\ \A i \in DOMAIN txLedger' :
             txLedger'[i].type = "TRANSFER" => txLedger'[i].sender # txLedger'[i].receiver]_vars

\* a donate to oneself was rejected although every user could have paid any
\* amount, and a donate between two users has been committed
C23_Witness ==
    /\ lastRet.op = "donate" /\ lastRet.kind = "self"
    /\ \A u \in Core.users : \A a \in Core.amounts : Currency(users, u, 1) >= a
    /\ \E i \in DOMAIN ledger : ledger[i].type = "TRANSFER"

LedgerOps == {"mint", "burn", "transfer", "set", "tax"}

\* C24: a stat operation on the currency column raises PermissionError and
\* leaves the store as it was; none gets to its statement; and a step that
\* changes a balance or the ledger is the commit of mint, burn, transfer,
\* set-balance or the wealth tax.
C24_CurrencyOnlyLedgerOps ==
    [][/\ (lastRet'.op \in StatOps /\ lastRet'.kind = "PermissionError")
            => UNCHANGED <<users, ledger, positions, txOwner, txUsers, txLedger, txPositions>>
       /\ \A p \in DOMAIN pc : pc'[p].op \in StatOps => pc'[p].stat # "currency"
       /\ ((\E u \in UsersSeen, g \in GuildsSeen : Currency(users', u, g) # Currency(users, u, g))
           \/ ledger' # ledger)
            => \E p \in DOMAIN pc : /\ pc[p].op \in LedgerOps
                                    /\ pc[p].stage = "commit"
                                    /\ pc'[p].op = "idle"]_vars

\* a stat operation on the currency column was refused while a balance
\* exists, and a stat operation on another column has created a row that no
\* ledger event mentions
C24_Witness ==
    /\ lastRet.op \in StatOps /\ lastRet.kind = "PermissionError"
    /\ \E k \in DOMAIN users : users[k] > 0
    /\ \E k \in DOMAIN users :
          /\ users[k] = 0
          /\ \A i \in DOMAIN ledger : ~Involves(ledger[i], k[1], k[2])

\* C25: the ledger after any step is the ledger before it with events
\* appended (none changed, moved or removed), and the ledger an open
\* transaction works on is the committed ledger with events appended.
C25_AppendOnly ==
    [][/\ Extends
       /\ Len(txLedger') >= Len(ledger')
       /\ SubSeq(txLedger', 1, Len(ledger')) = ledger']_vars

\* two events are committed, a transaction with a third was rolled back
C25_Witness ==
    /\ Len(ledger) = 2
    /\ ledger[1] # ledger[2]
    /\ lastRet.kind = "raised"
    /\ txOwner = 0

\* the place of the account of user u and guild g in the table
RowOf(tbl, u, g) == CHOOSE i \in DOMAIN tbl : tbl[i].discord_id = u /\ tbl[i].guild_id = g

C27_PositiveAmounts ==
    /\ \A i \in DOMAIN ledger : ledger[i].amount > 0
    /\ \A i \in DOMAIN txLedger : txLedger[i].amount > 0

\* a hand of bet 1 was surrendered: its payout int(0.5) = 0 was not minted,
\* and the bet is the last event
C27_Witness ==
    /\ lastRet.op = "blackjack" /\ lastRet.kind = "nopayout"
    /\ Len(ledger) >= 2
    /\ ledger[Len(ledger)].reason = "BLACKJACK_BET"
    /\ ledger[Len(ledger)].amount = 1
    /\ \E i \in DOMAIN ledger : ledger[i].reason = "ADMIN_SET"

\* what a tax pass that returns in this step did to the positions, where
\* Scale(n, a, b) is the rescaled notional: a position of the guild above the
\* threshold and with something to remove has its collateral replaced by the
\* ceiling of the power and its notional rescaled, unless the rescaled
\* notional is below 1 in magnitude, and then it is left as it was; the
\* collateral events, the total and the count are those of the positions
\* (and accounts) changed
PositionHandling(p, Scale(_, _, _)) ==
    LET g == pc[p].guild
        ex == pc[p].exp
        collEvs == SelectSeq(NewEvents, LAMBDA e : e.reason = "WEALTH_TAX_COLLATERAL")
    IN /\ \A i \in DOMAIN positions :
             LET old == positions[i]
                 new_collat == PowCeil(old.collateral, ex)
                 new_notional == Scale(old.notional, new_collat, old.collateral)
             IN IF /\ old.guild = g
                   /\ old.collateral > TaxThreshold
                   /\ old.collateral - new_collat > 0
                   /\ ~(Abs(new_notional) < 1)
                THEN positions'[i] = [old EXCEPT !.collateral = new_collat,
                                                 !.notional = new_notional]
                ELSE positions'[i] = old
       /\ Len(collEvs) = Cardinality(ReducedPositions(g))
       /\ lastRet'.val2 = (GuildTotal(users, g) - GuildTotal(users', g))
                          + (CollateralTotal(positions, g) - CollateralTotal(positions', g))
       /\ lastRet'.val = Cardinality(ReducedUsers(g))

\* C28: a tax pass replaces the collateral of a taxed position by
\* ceil(collateral ^ exponent) and its notional by old_notional * new_collateral
\* / old_collateral truncated toward zero; a position whose new notional
\* would be below 1 in magnitude is left unchanged, without an event, without
\* a share in the total and in the count.
C28_PositionHandling ==
    [][\A p \in DOMAIN pc :
         TaxReturns(p) => PositionHandling(p, LAMBDA n, a, b : TruncDiv(n * a, b))]_vars

\* a pass at 0.9 over a position of collateral 17 and notional 153 has left
\* collateral 13 and notional 116 (153 * 13 / 17 = 117)
C28_Witness ==
    /\ lastRet.op = "tax" /\ lastRet.kind = "pair"
    /\ positions = <<Pos(2, 1, 13, 116)>>

\* C29: a tax pass writes no account and no position whose removed amount is
\* <= 0, appends no event for it and does not count its user for it; with an
\* exponent >= 1 it changes nothing, appends nothing and returns (0, 0).
C29_SkipsUntaxed ==
    [][\A p \in DOMAIN pc :
         TaxReturns(p) =>
           LET g == pc[p].guild
               ex == pc[p].exp
               Removed(v) == IF v > 0 THEN v - PowCeil(v, ex) ELSE 0
               Taxable == {u \in UsersSeen :
                             \/ Removed(Currency(users, u, g)) > 0
                             \/ \E i \in DOMAIN positions :
                                   /\ positions[i].user = u /\ positions[i].guild = g
                                   /\ Removed(positions[i].collateral) > 0}
           IN /\ \A u \in UsersSeen :
                    Removed(Currency(users, u, g)) <= 0 =>
                       /\ Currency(users', u, g) = Currency(users, u, g)
                       /\ Key(u, g) \in DOMAIN users' <=> Key(u, g) \in DOMAIN users
                       /\ \A k \in DOMAIN NewEvents :
                             NewEvents[k].reason = "WEALTH_TAX" => NewEvents[k].sender # u
              /\ \A i \in DOMAIN positions :
                    Removed(positions[i].collateral) <= 0 => positions'[i] = positions[i]
              /\ ReducedUsers(g) \subseteq Taxable
              /\ lastRet'.val <= Cardinality(Taxable)
              /\ Len(NewEvents) <=
                    Cardinality({u \in UsersSeen : Removed(Currency(users, u, g)) > 0})
                    + Cardinality({i \in DOMAIN positions :
                                      Removed(positions[i].collateral) > 0})
              /\ ~BelowOne(ex) =>
                    /\ users' = users
                    /\ positions' = positions
                    /\ NewEvents = <<>>
                    /\ lastRet'.val = 0 /\ lastRet'.val2 = 0]_vars

\* a pass at 0.975 has taken 1 from a balance of 24 and nothing from a balance
\* of 11 (ceil(11 ^ 0.975) = 11), whose user is not counted
C29_Witness ==
    /\ lastRet.op = "tax" /\ lastRet.kind = "pair" /\ lastRet.val = 1 /\ lastRet.val2 = 1
    /\ positions = <<>>
    /\ \E u, v \in UsersSeen :
          /\ Currency(users, u, 1) = 23 /\ Replay(ledger, u, 1) = 23
          /\ Currency(users, v, 1) = 11 /\ Replay(ledger, v, 1) = 11

\* the actor an event of the ledger is due to, by its reason: the invoking
\* admin for the admin commands and the tax (for a mint without an initiator
\* the receiver), the sender for a donation, the player for blackjack
AdminReasons == {"ADMIN_REMOVE", "ADMIN_SET", "WEALTH_TAX", "WEALTH_TAX_COLLATERAL"}
ChargeReasons == {"BLACKJACK_BET", "BLACKJACK_DOUBLE_DOWN", "BLACKJACK_SPLIT"}
PayoutReasons == {RESULT_CONFIG[r].reason : r \in GameResults} \ {""}

ActorRecorded(e) ==
    /\ e.reason \in {"ADMIN_MINT", "P2P_TRANSFER"} \cup AdminReasons \cup ChargeReasons
                    \cup PayoutReasons
    /\ e.reason = "ADMIN_MINT" => e.initiator \in {Admin, e.receiver}
    /\ e.reason \in AdminReasons => e.initiator = Admin
    /\ e.reason = "P2P_TRANSFER" => e.initiator = e.sender
    /\ e.reason \in ChargeReasons => e.initiator = e.sender
    /\ e.reason \in PayoutReasons => e.initiator = e.receiver
    /\ e.initiator \notin {SYSTEM_USER_ID, COLLATERAL_POOL_ID}

\* C30: every event records the actor that caused it: the invoking admin for
\* admin mint, burn, set and the wealth tax, the sender for a transfer, the
\* player for blackjack charges and payouts, the receiver for a mint without
\* an initiator.
C30_InitiatorAttribution ==
    /\ \A i \in DOMAIN ledger : ActorRecorded(ledger[i])
    /\ \A i \in DOMAIN txLedger : ActorRecorded(txLedger[i])

\* a mint without an initiator (recorded as the receiver's), a donation of
\* the receiver and a blackjack bet of the one donated to are committed
C30_Witness ==
    /\ Len(ledger) = 3
    /\ ledger[1].reason = "ADMIN_MINT" /\ ledger[1].initiator = ledger[1].receiver
    /\ ledger[2].reason = "P2P_TRANSFER" /\ ledger[2].initiator = ledger[2].sender
    /\ ledger[3].reason = "BLACKJACK_BET" /\ ledger[3].initiator = ledger[3].sender
    /\ ledger[3].sender = ledger[2].receiver

\* the guild the operation of caller 1 that takes this step was invoked for
OpGuild == IF pc[1].op = "idle" THEN pc'[1].guild ELSE pc[1].guild

\* the rows of a users table that are not of guild g
OutsideGuild(tbl, g) == [k \in {x \in DOMAIN tbl : x[2] # g} |-> tbl[k]]

\* the positions of other guilds than g are the same in the two tables
SameOutside(old, new, g) ==
    /\ DOMAIN new = DOMAIN old
    /\ \A i \in DOMAIN old : old[i].guild # g => new[i] = old[i]

\* C31: every step of an operation invoked for guild g (mint, burn, transfer,
\* set_currency_balance_and_log, apply_wealth_tax) leaves the balances and the
\* positions of every other guild unchanged, those of the same user included,
\* in the committed store and in the open transaction, and the events it
\* appends all have guild_id g.
C31_GuildIsolation ==
    [][LET g == OpGuild
       IN /\ OutsideGuild(users', g) = OutsideGuild(users, g)
          /\ OutsideGuild(txUsers', g) = OutsideGuild(txUsers, g)
          /\ SameOutside(positions, positions', g)
          /\ SameOutside(txPositions, txPositions', g)
          /\ Extends
          /\ \A i \in DOMAIN NewEvents : NewEvents[i].guild = g
          /\ \A i \in DOMAIN txLedger' :
                i > Len(txLedger) => txLedger'[i].guild = g]_vars

\* a tax pass of guild 2 has returned after taxing the position of user 1
\* there, while the balance and the position of user 1 in guild 1, both above
\* the threshold, are as they were
C31_Witness ==
    /\ lastRet.op = "tax" /\ lastRet.val = 1
    /\ Key(1, 1) \in DOMAIN users /\ users[Key(1, 1)] = 12
    /\ positions[1] = Pos(1, 1, 12, 24)
    /\ positions[2].collateral < 24
    /\ ledger[Len(ledger)].guild = 2

\* the callback of caller p takes this step
Acts(p) == pc'[p] # pc[p]

\* C32: a blackjack round is started only by a command or a Play Again
\* callback whose burn_currency succeeded, with the bet that was burned; that
\* burn appended exactly one BLACKJACK_BET event of the bet, by and for the
\* player, and took the bet from the balance; when burn_currency returns None
\* no round is started, no balance changes and no event is appended.
C32_BetBeforeRound ==
    [][\A p \in Procs :
          Acts(p) =>
            /\ view'.rounds # view.rounds =>
                 /\ pc[p].stage = "charged" /\ pc[p].op \in {"bet", "again"}
                 /\ view'.rounds = view.rounds + 1
                 /\ view'.hands = <<[bet |-> pc[p].amount, result |-> view'.hands[1].result]>>
            /\ (pc'[p].stage = "charged" /\ pc'[p].op \in {"bet", "again"}) =>
                 LET c == pc'[p]
                 IN /\ pc[p].op = "idle"
                    /\ NewEvents = <<Event(c.guild, "BURN", "BLACKJACK_BET", c.user,
                                           SYSTEM_USER_ID, c.amount, c.user)>>
                    /\ Currency(users', c.user, c.guild)
                         = Currency(users, c.user, c.guild) - c.amount
                    /\ view' = view
            /\ (lastRet'.kind = "insufficient" /\ lastRet'.op \in {"bet", "again"}) =>
                 /\ Currency(users, 1, 1) < lastRet'.val
                 /\ UNCHANGED <<users, ledger, positions, view>>]_vars

\* a second round has been started through Play Again, after the two bets were
\* burned
C32_Witness ==
    /\ view.rounds = 2 /\ view.state = "PLAYERS_TURN"
    /\ lastRet.op = "again" /\ lastRet.kind = "applied"
    /\ Len(SelectSeq(ledger, LAMBDA e : e.reason = "BLACKJACK_BET")) = 2

\* this step doubled the bet of a hand / split the hand
DoubledStep ==
    /\ view'.rounds = view.rounds /\ Len(view'.hands) = Len(view.hands)
    /\ \E i \in DOMAIN view.hands : view'.hands[i].bet # view.hands[i].bet

SplitStep == view'.rounds = view.rounds /\ Len(view'.hands) # Len(view.hands)

\* C33: the step that follows a successful burn for a bet, a double down or a
\* split applies the round start or the table action (or returns the amount),
\* and a double down or a split is applied to the table only by a callback
\* whose burn for it succeeded.
C33_ChargedMeansApplied ==
    [][\A p \in Procs :
          Acts(p) =>
            /\ pc[p].stage = "charged" =>
                 \/ view'.rounds = view.rounds + 1
                 \/ DoubledStep
                 \/ SplitStep
                 \/ Currency(users', pc[p].user, pc[p].guild)
                      = Currency(users, pc[p].user, pc[p].guild) + pc[p].amount
            /\ DoubledStep => pc[p].stage = "charged" /\ pc[p].op = "double"
            /\ SplitStep => pc[p].stage = "charged" /\ pc[p].op = "split"]_vars

\* two Double Down clicks were both charged, the second callback found the
\* hand already doubled and the round over, and ended with the error message:
\* the hand carries twice the bet, the player paid three times the bet
C33_Witness ==
    /\ lastRet.op = "double" /\ lastRet.kind = "error"
    /\ Len(SelectSeq(ledger, LAMBDA e : e.reason = "BLACKJACK_DOUBLE_DOWN")) = 2
    /\ view.hands = <<[bet |-> 2 * view.bet, result |-> ""]>>
    /\ Currency(users, 1, 1) = 12 - 3 * view.bet

\* C34: when a hand is resolved, whatever its result and its bet, the change
\* of net_credits equals the hand's effect on the player's balance: the payout
\* minted for the hand minus the bet burned for it.
C34_NetCreditsExact ==
    [][\A p \in Procs :
          (Acts(p) /\ pc[p].stage = "end" /\ pc[p].val <= Len(view.hands)) =>
              blackjack_stats'.net_credits - blackjack_stats.net_credits
                = (Currency(users', 1, 1) - Currency(users, 1, 1))
                  - view.hands[pc[p].val].bet]_vars

\* a surrendered hand of bet 5 has been resolved: 2 were minted back (the
\* player is 3 down) and net_credits says -2
C34_Witness ==
    /\ lastRet.op = "surrender" /\ lastRet.kind = "over"
    /\ view.hands = <<[bet |-> 5, result |-> "SURRENDER"]>>
    /\ blackjack_stats.net_credits = -2
    /\ Currency(users, 1, 1) = 12 - 5 + 2

\* has_claimed_daily of (u, g) in the committed table (0 when the row is absent)
Claimed(tbl, k) == IF k \in DOMAIN tbl THEN tbl[k].claimed ELSE 0

\* C35: attempt_daily_claim returns True only when its transaction took
\* has_claimed_daily of (user, guild) from 0 (or from no row) to 1, and no
\* other call holds a successful claim of the pair at that time; every other
\* call returns False and leaves has_claimed_daily = 1; only a daily reset
\* takes has_claimed_daily back to 0.  So at most one call per pair returns
\* True between two resets, concurrent calls included.
C35_OneClaimPerDay ==
    [][/\ \A p \in Procs :
            (Acts(p) /\ pc[p].op = "claim") =>
                LET k == Key(pc[p].user, pc[p].guild)
                IN /\ lastRet'.op = "claim" /\ lastRet'.kind \in {"True", "False"}
                   /\ lastRet'.kind = "True" =>
                        /\ Claimed(daily, k) = 0
                        /\ Claimed(daily', k) = 1
                        /\ \A q \in Procs \ {p} :
                             ~(pc[q].op = "claim" /\ pc[q].val = 1
                               /\ Key(pc[q].user, pc[q].guild) = k)
                   /\ lastRet'.kind = "False" =>
                        Claimed(daily, k) = 1 /\ Claimed(daily', k) = 1
       /\ \A k \in DOMAIN daily :
            (daily[k].claimed = 1 /\ Claimed(daily', k) = 0) =>
                \E p \in Procs : Acts(p) /\ pc[p].op = "reset"]_vars

\* the second call for a pair whose row the first call created has returned
\* False
C35_Witness ==
    /\ lastRet.op = "claim" /\ lastRet.kind = "False" /\ lastRet.proc = 2
    /\ Key(lastRet.val, lastRet.val2) \in DOMAIN daily
    /\ daily[Key(lastRet.val, lastRet.val2)] = [claimed |-> 1, pref |-> "NEVER"]
    /\ Cardinality(DOMAIN daily) = 1

\* C36: process_daily_reset_all returns exactly the users who, in the state
\* its SELECT reads, have not claimed their daily (in some guild) and have a
\* reminder preference of ALWAYS or ONCE there.
C36_ResetReminds ==
    [][\A p \in Procs :
          (Acts(p) /\ pc'[p].op = "reset" /\ pc'[p].stage = "update") =>
              pc'[p].affected =
                  {k[1] : k \in {x \in DOMAIN daily :
                                    /\ daily[x].claimed = 0
                                    /\ daily[x].pref \in {"ALWAYS", "ONCE"}}}]_vars

\* the reset has just selected user 1, whose rows all say the daily was
\* claimed (nothing was written since the SELECT)
C36_Witness ==
    \E p \in Procs :
        /\ pc[p].op = "reset" /\ pc[p].stage = "update" /\ 1 \in pc[p].affected
        /\ txOwner = 0 /\ lastRet = NoRet
        /\ \A q \in Procs \ {p} : pc[q].op = "idle"
        /\ \A k \in DOMAIN daily : k[1] = 1 => daily[k].claimed = 1

\* a timer task that has not ended and that no cancellation was requested for
Live(t) ==
    tasks[t].kind = "timer" /\ ~tasks[t].cancel /\ tasks[t].stage \in {"new", "sleep", "send"}

\* the task runs schedule_next, or is a cancelled timer that will run it in
\* its finally block
Scheduling(t) ==
    \/ tasks[t].stage \in {"query", "rest"}
    \/ tasks[t].cancel /\ tasks[t].stage \in {"sleep", "send"}

Quiet == \A t \in DOMAIN tasks : ~Scheduling(t)

\* no scheduling goes on and, when a reminder is stored, _timer_task is the one
\* live timer task and it was created for the earliest reminder
Settled ==
    /\ Quiet
    /\ reminders # {} =>
           \E t \in DOMAIN tasks :
               /\ Live(t) /\ timer.task = t
               /\ tasks[t].target = get_next_reminder(reminders)
               /\ \A x \in DOMAIN tasks : Live(x) => x = t

\* C37: once users stop posting and deleting messages, the scheduler settles:
\* from some point on no schedule_next runs, and while a reminder is stored
\* exactly one live timer task exists and it waits for the earliest reminder
\* (so after an earlier reminder was added, or the awaited one deleted, the
\* timer was switched and is not cancelled or recreated again).
C37_SwitchAndSettle == <>[]Settled

\* schedule_next has switched: the timer for reminder 2 has a cancellation
\* pending and _timer_task is a new task for reminder 1, which was added later
C37_Witness ==
    /\ reminders = {1, 2}
    /\ \E t \in DOMAIN tasks : tasks[t].target = 2 /\ tasks[t].cancel
    /\ timer.task \in DOMAIN tasks /\ Live(timer.task) /\ tasks[timer.task].target = 1
    /\ timer.next = 1

\* C38: a schedule_next that runs to its end while the reminders it read are
\* still the stored ones and a timer task already waits for the earliest of
\* them neither cancels nor replaces that task.
C38_Idempotent ==
    [][\A t \in DOMAIN tasks :
          (/\ tasks[t].stage = "rest" /\ ~tasks[t].cancel /\ tasks'[t].stage # "rest"
           /\ tasks[t].reminder # 0
           /\ tasks[t].reminder = get_next_reminder(reminders)
           /\ timer.task \in DOMAIN tasks \ {t}
           /\ Live(timer.task) /\ tasks[timer.task].stage \in {"new", "sleep"}
           /\ tasks[timer.task].target = tasks[t].reminder)
          => /\ timer'.task = timer.task
             /\ tasks'[timer.task] = tasks[timer.task]]_vars

\* a handler is about to run the rest of schedule_next for the reminder that
\* _timer_task waits for and that _next_reminder_msg_id names
C38_Witness ==
    \E t \in DOMAIN tasks :
        /\ tasks[t].kind = "handler" /\ tasks[t].stage = "rest"
        /\ tasks[t].reminder # 0 /\ tasks[t].reminder = timer.next
        /\ tasks[t].reminder = get_next_reminder(reminders)
        /\ timer.task \in DOMAIN tasks /\ Live(timer.task)
        /\ tasks[timer.task].stage = "sleep"

\* while a reminder is stored and no scheduling goes on a live timer task exists
TimerWhenNeeded == (reminders # {} /\ Quiet) => \E t \in DOMAIN tasks : Live(t)

\* C39: every stored reminder is in the end dispatched (send_reminder is called
\* for it) unless its message is deleted; a row leaves the table only after
\* the call of send_reminder or with the deletion of its message; and while
\* a reminder is stored and no scheduling goes on, a live timer task exists.
C39_Delivered ==
    /\ []TimerWhenNeeded
    /\ [][\A i \in reminders \ reminders' : i \in sent \/ messages'[i] = "deleted"]_vars
    /\ \A i \in 1 .. MaxReminders :
           (i \in reminders) ~> (i \in sent \/ messages[i] = "deleted")

\* reminder 1 was dispatched and its row deleted by the dispatcher; reminder 2
\* is stored and its timer waits
C39_Witness ==
    /\ 1 \in sent /\ 1 \notin reminders /\ messages[1] = "posted"
    /\ reminders = {2} /\ Settled

====
